---- MODULE Spec2Model ----
(***************************************************************************)
(* A model of RView (src/src/RView.cc), the orchestrator of the MIRTK       *)
(* viewer: the dirty flags, the resample/composite pass Update(), the       *)
(* event handlers that drive Update()/Draw(), and the operations on the     *)
(* source transformation.                                                   *)
(*                                                                          *)
(* The RView object is the record rv, one field per member of the class     *)
(* (the leading underscore of the member names is dropped).  Member         *)
(* functions are operators from object state to object state, so that a     *)
(* handler that calls other member functions is the composition the code    *)
(* writes.  Floating point values that the code uses as blend factors       *)
(* (_viewMix, the alpha of a colour, the opacity of a label) are kept in    *)
(* multiples of 1/Quarter, 0..Quarter for 0.0..1.0: with Quarter = 4 these  *)
(* are dyadic, so the double arithmetic of the code on them and on 8-bit    *)
(* channels is exact and int() is the integer division used here.           *)
(***************************************************************************)
EXTENDS Integers, Sequences, FiniteSets, TLC

(***************************************************************************)
(* Bounds of the model                                                      *)
(***************************************************************************)
\* raster samples range over -1..MaxSample (-1 is the padding value)
MaxSample == 2
\* volumes that can be loaded are numbered 1..NumVolumes (0 is the empty image)
NumVolumes == 1
\* a layout of SpecLayout has at most MaxViewers viewers
MaxViewers == 4
\* a contour holds at most MaxContour points
MaxContour == 1
\* the resolution stays within MaxZoom half octaves of 1 mm
MaxZoom == 1
\* SpecHandlers follows the viewer over MaxEvents calls
MaxEvents == 3
\* landmark files hold 0..MaxLandmarks points
MaxLandmarks == 1
\* SpecFill follows the viewer over MaxFills calls of FillContour
MaxFills == 1
\* the most changes of a display flag between Write and Read
MaxFlagChanges == 1
\* the most lines of a configuration file that was not written by Write()
MaxLines == 2
\* ReadTarget(argc, argv) and ReadSource(argc, argv) get 1..MaxFiles files
MaxFiles == 2

Samples == -1 .. MaxSample
\* the intensity range 0..10000 the lookup tables are initialised with, in the
\* unit of the samples of the model
MaxIntensity == MaxSample
Volumes == 1 .. NumVolumes

\* blend factors (the view mix, the alpha of a colour, the opacity of a
\* label) are multiples of 1/Quarter, held as 0..Quarter
Quarter == 4
\* an 8-bit colour channel holds 0..ChannelMax
ChannelMax == 255

Min(a, b) == IF a < b THEN a ELSE b
Max(a, b) == IF a > b THEN a ELSE b

(***************************************************************************)
(* Colours and lookup tables (Color, LookupTable: classes of the viewer     *)
(* whose source is not part of src/)                                        *)
(***************************************************************************)
\* Color(): the default colour
Color == [r |-> 0, g |-> 0, b |-> 0]

\* assignment of an int to an unsigned char channel
ToChannel(x) == x % (ChannelMax + 1)

ColorModes == {"Red", "Green", "Blue", "Luminance", "Rainbow"}

\* LookupTable::At: the colour and alpha (in quarters) of an intensity
At(lut, v) ==
  LET level == IF v <= lut.minDisplay THEN 0
               ELSE IF v >= lut.maxDisplay THEN ChannelMax
               ELSE ((v - lut.minDisplay) * ChannelMax) \div (lut.maxDisplay - lut.minDisplay)
      rgb == CASE lut.mode = "Red"       -> [r |-> level, g |-> 0, b |-> 0]
               [] lut.mode = "Green"     -> [r |-> 0, g |-> level, b |-> 0]
               [] lut.mode = "Blue"      -> [r |-> 0, g |-> 0, b |-> level]
               [] lut.mode = "Luminance" -> [r |-> level, g |-> level, b |-> level]
               [] OTHER                  -> [r |-> level, g |-> ChannelMax - level, b |-> level \div 2]
  IN [r |-> rgb.r, g |-> rgb.g, b |-> rgb.b, a |-> lut.alpha]

\* Color::operator=(ColorRGBA): the drawable keeps the three channels
AsColor(c) == [r |-> c.r, g |-> c.g, b |-> c.b]

\* LookupTable::SetMinDisplayIntensity / SetMaxDisplayIntensity
SetMinDisplayIntensity(lut, value) ==
  [lut EXCEPT !.minDisplay = Max(lut.minData, Min(value, lut.maxDisplay))]
SetMaxDisplayIntensity(lut, value) ==
  [lut EXCEPT !.maxDisplay = Min(lut.maxData, Max(value, lut.minDisplay))]

\* LookupTable::SetColorMode, together with the alpha of the table
SetColorMode(lut, setting) == [lut EXCEPT !.mode = setting[1], !.alpha = setting[2]]

\* LookupTable::Initialize(min, max) and the LookupTable constructor
LookupTable(lo, hi, mode, alpha) ==
  [minData |-> lo, maxData |-> hi, minDisplay |-> lo, maxDisplay |-> hi,
   mode |-> mode, alpha |-> alpha]

(***************************************************************************)
(* Segment table (SegmentTable::_entry)                                     *)
(***************************************************************************)
\* _entry[label]: label 0 is hidden, odd labels are half transparent
SegmentEntry(label) ==
  [visible |-> label > 0,
   trans   |-> IF label % 2 = 1 THEN Quarter \div 2 ELSE Quarter,
   color   |-> [r |-> ChannelMax, g |-> (label * 100) % (ChannelMax + 1), b |-> 0]]

(***************************************************************************)
(* Viewers and layouts                                                      *)
(***************************************************************************)
ViewerModes == {"Viewer_XY", "Viewer_XZ", "Viewer_YZ"}

\* RViewConfig: a viewport rectangle in halves of the window (0..2 for
\* 0.0..1.0) and the orthogonal plane it shows
Viewport(x1, y1, x2, y2, mode) ==
  [xmin |-> x1, ymin |-> y1, xmax |-> x2, ymax |-> y2, mode |-> mode]

\* layout presets handed to Configure
View_XY == << Viewport(0, 0, 2, 2, "Viewer_XY") >>
View_XY_XZ_YZ == << Viewport(0, 1, 1, 2, "Viewer_XY"),
                    Viewport(1, 1, 2, 2, "Viewer_XZ"),
                    Viewport(0, 0, 1, 1, "Viewer_YZ") >>
View_AB_XY_v == << Viewport(0, 0, 1, 2, "Viewer_XY"),
                   Viewport(1, 0, 2, 2, "Viewer_XY") >>
Layouts == {View_XY, View_XY_XZ_YZ, View_AB_XY_v}

\* window sizes in pixels
ScreenSizes == {<<2, 2>>, <<4, 2>>}

\* Viewer::GetWidth / GetHeight after SetViewport and SetScreen
GetWidth(viewer, screenX)  == ((viewer.xmax - viewer.xmin) * screenX) \div 2
GetHeight(viewer, screenY) == ((viewer.ymax - viewer.ymin) * screenY) \div 2

Width(s, k)  == GetWidth(s.viewer[k], s.screenX)
Height(s, k) == GetHeight(s.viewer[k], s.screenY)
NumberOfVoxels(s, k) == Width(s, k) * Height(s, k)

ModeKey(mode) == CASE mode = "Viewer_XY" -> 0
                   [] mode = "Viewer_XZ" -> 1
                   [] OTHER              -> 2

(***************************************************************************)
(* Volumes (mirtk::GreyImage): geometry of the volumes that can be loaded   *)
(***************************************************************************)
\* GetX, GetY, GetZ, GetT of volume img; 0 is an image without voxels
GetX(img) == IF img = 0 THEN 0 ELSE img + 1
GetY(img) == IF img = 0 THEN 0 ELSE 2
GetZ(img) == 1
GetT(img) == IF img = 0 THEN 1 ELSE img

\* round() of d/2, halves away from zero
RoundHalf(d) == IF d >= 0 THEN (d + 1) \div 2 ELSE -((1 - d) \div 2)

(***************************************************************************)
(* Geometry of the display grids (the attributes RView::Initialize gives    *)
(* the output rasters) at the resolution of 1 mm; positions are held in     *)
(* halves of a voxel, relative to the centre of the volume                  *)
(***************************************************************************)
Dimensions(img) == <<GetX(img), GetY(img), GetZ(img)>>

\* vectors of three integers
Plus(p, q) == [i \in 1 .. 3 |-> p[i] + q[i]]
Scale(c, p) == [i \in 1 .. 3 |-> c * p[i]]
Dot(p, q) == p[1] * q[1] + p[2] * q[2] + p[3] * q[3]

\* the grid of a viewer of w x h pixels showing the plane mode, centred at
\* the reslice origin (a voxel of target), along the display axes
DisplayGrid(w, h, mode, origin, target, axes) ==
  [width |-> w, height |-> h, mode |-> mode, origin |-> origin, target |-> target,
   axes |-> axes]

\* WorldToImage and ImageToWorld of volume img
WorldToImage(img, p) == [i \in 1 .. 3 |-> p[i] + (Dimensions(img)[i] - 1)]
ImageToWorld(img, p) == [i \in 1 .. 3 |-> p[i] - (Dimensions(img)[i] - 1)]

\* the position of the centre of a display grid
GridOrigin(grid) == ImageToWorld(grid.target, [i \in 1 .. 3 |-> 2 * grid.origin[i]])

\* ImageToWorld of a display grid for the point (px, py) of its plane (in
\* pixels); across the plane the point lies where keep does
PixelToWorld(grid, px, py, keep) ==
  LET a == 2 * px - (grid.width - 1)
      b == 2 * py - (grid.height - 1)
      o == GridOrigin(grid)
      \* the axes of the grid: attr._xaxis, _yaxis, _zaxis of the viewer mode
      plane == CASE grid.mode = "Viewer_XY" -> <<1, 2, 3>>
                 [] grid.mode = "Viewer_XZ" -> <<1, 3, 2>>
                 [] OTHER                   -> <<2, 3, 1>>
      u == grid.axes[plane[1]]
      v == grid.axes[plane[2]]
      n == grid.axes[plane[3]]
      depth == Dot(Plus(keep, Scale(-1, o)), n)
  IN Plus(Plus(o, Scale(a, u)), Plus(Scale(b, v), Scale(depth, n)))

\* ImageToWorld of pixel n (1-based) of a display grid
GridToWorld(grid, n) ==
  PixelToWorld(grid, (n - 1) % grid.width, (n - 1) \div grid.width, GridOrigin(grid))

\* round() of a position in the grid of a volume
RoundVoxel(p) == [i \in 1 .. 3 |-> RoundHalf(p[i])]

\* WorldToImage of volume img followed by round(): the voxel of a position
WorldToVoxel(img, p) == RoundVoxel(WorldToImage(img, p))

\* the voxel lies inside volume img
InsideVolume(img, v) == \A i \in 1 .. 3 : v[i] >= 0 /\ v[i] < Dimensions(img)[i]

\* the voxels of volume img
VoxelsOf(img) == (0 .. GetX(img) - 1) \X (0 .. GetY(img) - 1) \X (0 .. GetZ(img) - 1)

(***************************************************************************)
(* Resampling filters (mirtk::ImageTransformation::Run)                     *)
(***************************************************************************)
\* the sample the filter writes at display pixel n (0-based) for a given
\* non-empty input volume; key gathers what the filter output depends on
\* besides the volume (plane, reslice origin, transformation)
Resample(img, key, n) == ((img * (n + 1) + key) % (MaxSample + 2)) - 1

\* GreyImage::Initialize(attr): a raster of the viewer's size, all zero
BlankRaster(s, k) == [n \in 1 .. NumberOfVoxels(s, k) |-> 0]

\* what the source filter depends on: the transformation it is given
SourceKey(s) ==
  IF ~s.sourceTransformApply \/ (s.sourceTransform.rigid = 0 /\ s.sourceTransform.affine = 0)
  THEN 0
  ELSE s.sourceTransform.rigid + 2 * s.sourceTransform.affine
         + (IF s.sourceTransformInvert THEN 1 ELSE 0)

\* what every filter of viewer l depends on: the plane, the reslice origin
\* and the resolution of the display grid
ViewKey(s, l) ==
  ModeKey(s.viewer[l].mode) + s.origin[1] + s.origin[2] + s.origin[3] + s.resolution

\* ghost: one entry of the event trace of the current handler
Event(ev, role, k, dirty) == [ev |-> ev, role |-> role, viewer |-> k, dirty |-> dirty]
Log(s, ev, role, k) ==
  [s EXCEPT !.trace = Append(@, Event(ev, role, k,
      <<s.targetUpdate, s.sourceUpdate, s.segmentationUpdate, s.selectionUpdate>>))]


(***************************************************************************)
(* RView::Update                                                            *)
(***************************************************************************)
Roles == <<"target", "source", "segmentation", "selection">>

\* _voxelContour._raster resampled into viewer l: the raster is aligned with
\* the grid of the contour viewer, viewers of another plane do not meet it
SelectionRaster(s, l) ==
  [n \in 1 .. NumberOfVoxels(s, l) |->
     IF s.viewer[l].mode = s.contourViewerMode /\ n \in s.contourRaster THEN 1 ELSE 0]

InterpolationKey(mode) == IF mode = "NN" THEN 0 ELSE 1

\* _targetTransformFilter[l]->Run() and its three siblings
RunTarget(s, l) ==
  [Log(s, "Run", "target", l) EXCEPT !.targetImageOutput[l] =
     [n \in 1 .. NumberOfVoxels(s, l) |->
        Resample(s.targetImage,
                 ViewKey(s, l) + s.targetFrame + InterpolationKey(s.targetInterpolationMode),
                 n - 1)]]
\* _sourceTransformCache: empty (Clear), or initialised and marked modified,
\* or computed and marked unmodified ("valid"); the snapshot holds the
\* transformation, the invert flag and the frames of its initialisation
EmptyCache == [state |-> "empty", snapshot |-> <<>>]
ModifiedCache == [state |-> "modified", snapshot |-> <<>>]
CacheSnapshot(s) ==
  << s.sourceTransform, s.sourceTransformInvert, s.sourceFrame, s.targetFrame >>

RunSource(s, l) ==
  [Log(s, "Run", "source", l) EXCEPT
     !.sourceImageOutput[l] =
        [n \in 1 .. NumberOfVoxels(s, l) |->
           Resample(s.sourceImage,
                    ViewKey(s, l) + SourceKey(s) + s.sourceFrame
                      + InterpolationKey(s.sourceInterpolationMode),
                    n - 1)],
     \* an attached cache that is marked modified is computed and marked
     \* unmodified; an unmodified cache is used as it is
     !.sourceTransformCache =
        IF s.sourceTransformFilter[l].cache /\ @.state = "modified"
        THEN [@ EXCEPT !.state = "valid"] ELSE @]
\* the grid of viewer l
ViewerGrid(s, l) ==
  DisplayGrid(Width(s, l), Height(s, l), s.viewer[l].mode, s.origin, s.targetImage,
              <<s.xaxis, s.yaxis, s.zaxis>>)

\* the value of voxel v of the segmentation volume: what FillContour put
\* there, else what the volume was filled with when it was allocated or read
SegmentationVoxel(s, v) ==
  IF v \in DOMAIN s.segmentationPaint THEN s.segmentationPaint[v]
  ELSE IF s.segmentationZeros THEN 0
  ELSE Resample(s.segmentationImage, 0, v[1] + GetX(s.segmentationImage) * v[2])

\* the sample of the segmentation at pixel n of viewer l
SegmentationSample(s, l, n) ==
  LET v == WorldToVoxel(s.segmentationImage, GridToWorld(ViewerGrid(s, l), n))
  IN IF v \in DOMAIN s.segmentationPaint THEN s.segmentationPaint[v]
     ELSE IF s.segmentationZeros THEN 0
     ELSE Resample(s.segmentationImage, ViewKey(s, l), n - 1)

RunSegmentation(s, l) ==
  [Log(s, "Run", "segmentation", l) EXCEPT !.segmentationImageOutput[l] =
     [n \in 1 .. NumberOfVoxels(s, l) |-> SegmentationSample(s, l, n)]]
RunSelection(s, l) ==
  [Log(s, "Run", "selection", l) EXCEPT !.selectionImageOutput[l] = SelectionRaster(s, l)]

\* variant: the filters run whether or not the flag of their role is set
ResampleViewer_Always(s, l) ==
  LET s1 == IF s.targetImage # 0 THEN RunTarget(s, l) ELSE s
      s2 == IF s1.sourceImage # 0 THEN RunSource(s1, l) ELSE s1
      s3 == IF s2.segmentationImage # 0 THEN RunSegmentation(s2, l) ELSE s2
  IN IF ~s3.rasterIsEmpty THEN RunSelection(s3, l) ELSE s3

\* body of the first loop of Update for viewer l (lines 243-256)
ResampleViewer(s, l) ==
  LET s1 == IF s.targetUpdate /\ s.targetImage # 0 THEN RunTarget(s, l) ELSE s
      s2 == IF s1.sourceUpdate /\ s1.sourceImage # 0 THEN RunSource(s1, l) ELSE s1
      s3 == IF s2.segmentationUpdate /\ s2.segmentationImage # 0
            THEN RunSegmentation(s2, l) ELSE s2
  IN IF s3.selectionUpdate /\ ~s3.rasterIsEmpty THEN RunSelection(s3, l) ELSE s3

RECURSIVE ResampleLoop(_, _)
ResampleLoop(s, l) ==
  IF l > s.NoOfViewers THEN s ELSE ResampleLoop(ResampleViewer(s, l), l + 1)

\* variant: a flag is cleared only if the input of its role is not empty
ClearUpdateFlags_OnlyResampled(s) ==
  [s EXCEPT !.targetUpdate = IF s.targetImage # 0 THEN FALSE ELSE @,
            !.sourceUpdate = IF s.sourceImage # 0 THEN FALSE ELSE @,
            !.segmentationUpdate = IF s.segmentationImage # 0 THEN FALSE ELSE @,
            !.selectionUpdate = IF ~s.rasterIsEmpty THEN FALSE ELSE @]

\* "No more updating required" (lines 260-263)
ClearUpdateFlags(s) ==
  [s EXCEPT !.targetUpdate = FALSE, !.sourceUpdate = FALSE,
            !.segmentationUpdate = FALSE, !.selectionUpdate = FALSE]

\* int(blendA * x + blendB * y) with blendA = a/4 and blendB = 1 - blendA
Blend(a, x, y) == ToChannel((a * x + (Quarter - a) * y) \div Quarter)
BlendColor(a, c1, c2) ==
  [r |-> Blend(a, c1.r, c2.r), g |-> Blend(a, c1.g, c2.g), b |-> Blend(a, c1.b, c2.b)]

\* The colour the cases of the switch (_viewMode) write to *ptr3; c1 and c2
\* are lut1->At(*ptr1) and lut2->At(*ptr2), v1 and v2 are *ptr1 and *ptr2.
VShutterPixel(x, c1, c2, i) ==
  IF i * Quarter < x.viewMix * x.width THEN AsColor(c1) ELSE AsColor(c2)
HShutterPixel(x, c1, c2, j) ==
  IF j * Quarter < x.viewMix * x.height THEN AsColor(c1) ELSE AsColor(c2)
SubtractionPixel(x, v1, v2) ==
  IF v1 >= 0 /\ v2 >= 0 THEN AsColor(At(x.sublut, v1 - v2)) ELSE Color
\* variant: the mix weighs the second image
CheckerboardPixel_MixOfSecond(x, c1, c2) == BlendColor(Quarter - x.viewMix, c1, c2)
CheckerboardPixel(x, c1, c2) == BlendColor(x.viewMix, c1, c2)
AoverBPixel(c1, c2) == BlendColor(c1.a, c1, c2)
\* variant: B over A blends with the alpha of the first image, as A over B does
BoverAPixel_FirstAlpha(c1, c2) == BlendColor(Quarter - c1.a, c1, c2)
BoverAPixel(c1, c2) == BlendColor(Quarter - c2.a, c1, c2)

\* variant: the shutters advance the cursor of the second raster only in
\* the modes that blend
AdvanceCursors_ShutterKeepsSecond(c, viewMode) ==
  [c EXCEPT !.ptr1 = IF viewMode = "View_B" THEN @ ELSE @ + 1,
            !.ptr2 = IF viewMode \in {"View_A", "View_VShutter", "View_HShutter"}
                     THEN @ ELSE @ + 1,
            !.ptr3 = @ + 1]

\* the cursors after "ptr1++; ptr2++; ptr3++": View_A leaves ptr2 and View_B
\* leaves ptr1 where it is
AdvanceCursors(c, viewMode) ==
  [c EXCEPT !.ptr1 = IF viewMode = "View_B" THEN @ ELSE @ + 1,
            !.ptr2 = IF viewMode = "View_A" THEN @ ELSE @ + 1,
            !.ptr3 = @ + 1]

\* One pass of the innermost loop body of the switch (_viewMode): c holds the
\* running cursors ptr1, ptr2, ptr3 (as offsets) and the colour buffer; x holds
\* what the pointers and lookup tables refer to after the swap of line 274.
ViewPixel(c, x, i, j) ==
  LET v1 == x.raster1[c.ptr1 + 1]
      v2 == x.raster2[c.ptr2 + 1]
      c1 == At(x.lut1, v1)
      c2 == At(x.lut2, v2)
      col == CASE x.viewMode = "View_A"            -> AsColor(c1)
               [] x.viewMode = "View_B"            -> AsColor(c2)
               [] x.viewMode = "View_VShutter"     -> VShutterPixel(x, c1, c2, i)
               [] x.viewMode = "View_HShutter"     -> HShutterPixel(x, c1, c2, j)
               [] x.viewMode = "View_Subtraction"  -> SubtractionPixel(x, v1, v2)
               [] x.viewMode = "View_Checkerboard" -> CheckerboardPixel(x, c1, c2)
               [] x.viewMode = "View_AoverB"       -> AoverBPixel(c1, c2)
               [] x.viewMode = "View_BoverA"       -> BoverAPixel(c1, c2)
  IN AdvanceCursors([c EXCEPT !.buf[c.ptr3 + 1] = col], x.viewMode)

\* the two nested loops over j (rows) and i (columns), in the order of the code
RECURSIVE ViewLoop(_, _, _)
ViewLoop(c, x, n) ==
  IF n >= x.width * x.height THEN c
  ELSE ViewLoop(ViewPixel(c, x, n % x.width, n \div x.width), x, n + 1)

\* variant: the overlay weighs the base colour by the opacity of the label
SegmentationPixel_BaseOpacity(c, x) ==
  LET label == x.segmentation[c.ptr4 + 1]
      e     == SegmentEntry(label)
      old   == c.buf[c.ptr3 + 1]
  IN [c EXCEPT !.buf = IF label >= 0 /\ e.visible
                       THEN [c.buf EXCEPT ![c.ptr3 + 1] = BlendColor(e.trans, old, e.color)]
                       ELSE c.buf,
               !.ptr3 = @ + 1, !.ptr4 = @ + 1]

\* segmentation overlay (lines 414-432): cursors ptr3 and ptr4
SegmentationPixel(c, x) ==
  LET label == x.segmentation[c.ptr4 + 1]
      e     == SegmentEntry(label)
      old   == c.buf[c.ptr3 + 1]
  IN [c EXCEPT !.buf = IF label >= 0 /\ e.visible
                       THEN [c.buf EXCEPT ![c.ptr3 + 1] = BlendColor(e.trans, e.color, old)]
                       ELSE c.buf,
               !.ptr3 = @ + 1, !.ptr4 = @ + 1]

RECURSIVE SegmentationLoop(_, _, _)
SegmentationLoop(c, x, n) ==
  IF n >= x.width * x.height THEN c
  ELSE SegmentationLoop(SegmentationPixel(c, x), x, n + 1)

\* variant: a selected pixel is given the highlight colour itself
SelectionPixel_Opaque(c, x) ==
  [c EXCEPT !.buf = IF x.selection[c.ptr5 + 1] > 0
                    THEN [c.buf EXCEPT ![c.ptr3 + 1] =
                            [r |-> ChannelMax, g |-> ChannelMax, b |-> 0]]
                    ELSE c.buf,
            !.ptr3 = @ + 1, !.ptr5 = @ + 1]

\* selection overlay (lines 434-449): cursors ptr3 and ptr5
SelectionPixel(c, x) ==
  LET old == c.buf[c.ptr3 + 1]
  IN [c EXCEPT !.buf = IF x.selection[c.ptr5 + 1] > 0
                       THEN [c.buf EXCEPT ![c.ptr3 + 1] =
                               [r |-> ToChannel((old.r + ChannelMax) \div 2),
                                g |-> ToChannel((old.g + ChannelMax) \div 2),
                                b |-> ToChannel(old.b \div 2)]]
                       ELSE c.buf,
               !.ptr3 = @ + 1, !.ptr5 = @ + 1]

RECURSIVE SelectionLoop(_, _, _)
SelectionLoop(c, x, n) ==
  IF n >= x.width * x.height THEN c
  ELSE SelectionLoop(SelectionPixel(c, x), x, n + 1)

\* variant: a source viewer exchanges the lookup tables but not the rasters
ViewerPointers_TablesOnly(s, k) ==
  [raster1 |-> s.targetImageOutput[k],
   raster2 |-> s.sourceImageOutput[k],
   lut1    |-> IF s.isSourceViewer[k] THEN s.sourceLookupTable ELSE s.targetLookupTable,
   lut2    |-> IF s.isSourceViewer[k] THEN s.targetLookupTable ELSE s.sourceLookupTable,
   sublut  |-> s.subtractionLookupTable,
   segmentation |-> s.segmentationImageOutput[k],
   selection    |-> s.selectionImageOutput[k],
   viewMode |-> s.viewMode, viewMix |-> s.viewMix,
   width |-> Width(s, k), height |-> Height(s, k)]

\* what ptr1, ptr2, lut1, lut2, ptr4, ptr5 refer to for viewer k (lines 267-277)
ViewerPointers(s, k) ==
  [raster1 |-> IF s.isSourceViewer[k] THEN s.sourceImageOutput[k] ELSE s.targetImageOutput[k],
   raster2 |-> IF s.isSourceViewer[k] THEN s.targetImageOutput[k] ELSE s.sourceImageOutput[k],
   lut1    |-> IF s.isSourceViewer[k] THEN s.sourceLookupTable ELSE s.targetLookupTable,
   lut2    |-> IF s.isSourceViewer[k] THEN s.targetLookupTable ELSE s.sourceLookupTable,
   sublut  |-> s.subtractionLookupTable,
   segmentation |-> s.segmentationImageOutput[k],
   selection    |-> s.selectionImageOutput[k],
   viewMode |-> s.viewMode, viewMix |-> s.viewMix,
   width |-> Width(s, k), height |-> Height(s, k)]

\* variant: the overlay of the labels reads the raster of the first viewer
CompositeViewer_LabelsOfFirst(s, k) ==
  LET x  == [ViewerPointers(s, k) EXCEPT !.segmentation = s.segmentationImageOutput[1]]
      c0 == [ptr1 |-> 0, ptr2 |-> 0, ptr3 |-> 0, ptr4 |-> 0, ptr5 |-> 0, buf |-> s.drawable[k]]
      c1 == ViewLoop(c0, x, 0)
      c2 == IF s.DisplaySegmentationLabels
            THEN SegmentationLoop([c1 EXCEPT !.ptr3 = 0], x, 0) ELSE c1
      c3 == IF s.contourSize > 0
            THEN SelectionLoop([c2 EXCEPT !.ptr3 = 0, !.ptr5 = 0], x, 0) ELSE c2
  IN [Log(s, "Composite", "", k) EXCEPT !.drawable[k] = c3.buf]

\* body of the second loop of Update for viewer k (lines 267-449)
CompositeViewer(s, k) ==
  LET x  == ViewerPointers(s, k)
      c0 == [ptr1 |-> 0, ptr2 |-> 0, ptr3 |-> 0, ptr4 |-> 0, ptr5 |-> 0, buf |-> s.drawable[k]]
      c1 == ViewLoop(c0, x, 0)
      c2 == IF s.DisplaySegmentationLabels
            THEN SegmentationLoop([c1 EXCEPT !.ptr3 = 0], x, 0) ELSE c1
      c3 == IF s.contourSize > 0
            THEN SelectionLoop([c2 EXCEPT !.ptr3 = 0, !.ptr5 = 0], x, 0) ELSE c2
  IN [Log(s, "Composite", "", k) EXCEPT !.drawable[k] = c3.buf]

\* the second loop, over the viewers in the given order
RECURSIVE CompositeLoop(_, _)
CompositeLoop(s, order) ==
  IF order = <<>> THEN s
  ELSE CompositeLoop(CompositeViewer(s, Head(order)), Tail(order))

ViewerOrder(s) == [k \in 1 .. s.NoOfViewers |-> k]

\* variant: the viewers are composited before the rasters are resampled
Update_CompositeFirst(s) ==
  ClearUpdateFlags(ResampleLoop(CompositeLoop(Log(s, "Update", "", 0), ViewerOrder(s)), 1))
Update(s) ==
  CompositeLoop(ClearUpdateFlags(ResampleLoop(Log(s, "Update", "", 0), 1)), ViewerOrder(s))

\* RView::Draw: presents the drawables; the trace records the flags it starts with
Draw(s) == Log(s, "Draw", "", 0)


(***************************************************************************)
(* Layout presets of the configuration modes                                *)
(***************************************************************************)
\* two viewers side by side (_v) or one above the other (_h)
TwoViewers(vertical, first, second) ==
  IF vertical THEN << Viewport(0, 0, 1, 2, first), Viewport(1, 0, 2, 2, second) >>
  ELSE << Viewport(0, 1, 2, 2, first), Viewport(0, 0, 2, 1, second) >>

\* two pairs of viewers, the pairs side by side (_v) or one above the other (_h)
FourViewers(vertical, first, second) ==
  IF vertical
  THEN << Viewport(0, 1, 1, 2, first), Viewport(1, 1, 2, 2, first),
          Viewport(0, 0, 1, 1, second), Viewport(1, 0, 2, 1, second) >>
  ELSE << Viewport(0, 1, 1, 2, first), Viewport(0, 0, 1, 1, first),
          Viewport(1, 1, 2, 2, second), Viewport(1, 0, 2, 1, second) >>

\* enum ConfigViewerMode
ConfigModes ==
  {"_View_XY", "_View_XZ", "_View_YZ",
   "_View_XY_XZ_v", "_View_XY_YZ_v", "_View_XZ_YZ_v",
   "_View_XY_XZ_h", "_View_XY_YZ_h", "_View_XZ_YZ_h",
   "_View_XY_XZ_YZ",
   "_View_AB_XY_v", "_View_AB_XZ_v", "_View_AB_YZ_v", "_View_AB_XY_XZ_v",
   "_View_AB_XY_h", "_View_AB_XZ_h", "_View_AB_YZ_h", "_View_AB_XY_XZ_h"}

\* the switch at the end of Read (lines 1297-1352): the preset of a mode
Preset(configMode) ==
  CASE configMode = "_View_XY" -> View_XY
    [] configMode = "_View_XZ" -> << Viewport(0, 0, 2, 2, "Viewer_XZ") >>
    [] configMode = "_View_YZ" -> << Viewport(0, 0, 2, 2, "Viewer_YZ") >>
    [] configMode = "_View_XY_XZ_v" -> TwoViewers(TRUE, "Viewer_XY", "Viewer_XZ")
    [] configMode = "_View_XY_YZ_v" -> TwoViewers(TRUE, "Viewer_XY", "Viewer_YZ")
    [] configMode = "_View_XZ_YZ_v" -> TwoViewers(TRUE, "Viewer_XZ", "Viewer_YZ")
    [] configMode = "_View_XY_XZ_h" -> TwoViewers(FALSE, "Viewer_XY", "Viewer_XZ")
    [] configMode = "_View_XY_YZ_h" -> TwoViewers(FALSE, "Viewer_XY", "Viewer_YZ")
    [] configMode = "_View_XZ_YZ_h" -> TwoViewers(FALSE, "Viewer_XZ", "Viewer_YZ")
    [] configMode = "_View_XY_XZ_YZ" -> View_XY_XZ_YZ
    [] configMode = "_View_AB_XY_v" -> View_AB_XY_v
    [] configMode = "_View_AB_XZ_v" -> TwoViewers(TRUE, "Viewer_XZ", "Viewer_XZ")
    [] configMode = "_View_AB_YZ_v" -> TwoViewers(TRUE, "Viewer_YZ", "Viewer_YZ")
    [] configMode = "_View_AB_XY_XZ_v" -> FourViewers(TRUE, "Viewer_XY", "Viewer_XZ")
    [] configMode = "_View_AB_XY_h" -> TwoViewers(FALSE, "Viewer_XY", "Viewer_XY")
    [] configMode = "_View_AB_XZ_h" -> TwoViewers(FALSE, "Viewer_XZ", "Viewer_XZ")
    [] configMode = "_View_AB_YZ_h" -> TwoViewers(FALSE, "Viewer_YZ", "Viewer_YZ")
    [] OTHER -> FourViewers(FALSE, "Viewer_XY", "Viewer_XZ")

\* a configuration file: its lines "key = value", and (ghost) the modes of the
\* viewer that wrote it
ConfigFile(lines, wrote) == [exists |-> TRUE, lines |-> lines, wrote |-> wrote]
NoFile ==
  [exists |-> FALSE, lines |-> <<>>, wrote |-> [configMode |-> "", viewMode |-> ""]]

\* a line "key = value": the key is the text before '=', the value is the text
\* after '=' and the blanks that follow it, a token or a number; atoi and atof
\* of a token give 0, and a number equals no token
Line(key, value) == [key |-> key, eq |-> TRUE, value |-> value, number |-> 0]
Number(key, n) == [key |-> key, eq |-> TRUE, value |-> "", number |-> n]
\* a line without '='
Malformed(text) == [key |-> text, eq |-> FALSE, value |-> "", number |-> 0]

\* the boolean display flags of the configuration file, in the order of Write
FlagOrder ==
  << "DisplayTargetContour", "DisplaySourceContour", "DisplayCursor",
     "DisplayDeformationGrid", "DisplayDeformationPoints", "DisplayDeformationArrows",
     "DisplayLandmarks", "DisplayObject", "DisplayObjectWarp", "DisplayObjectGrid" >>
DisplayFlags == {FlagOrder[n] : n \in 1 .. Len(FlagOrder)}
\* the flags written and read only when built with VTK
ObjectFlags == {"DisplayObject", "DisplayObjectWarp", "DisplayObjectGrid"}
TableNames == {"targetLookupTable", "sourceLookupTable", "subtractionLookupTable"}
CursorModes == {"CrossHair", "CursorX", "CursorV", "CursorBar"}

(***************************************************************************)
(* RView::Initialize, Configure, Resize, Reset and the constructor          *)
(***************************************************************************)
SetUpdateFlags(s) ==
  [s EXCEPT !.targetUpdate = TRUE, !.sourceUpdate = TRUE,
            !.segmentationUpdate = TRUE, !.selectionUpdate = TRUE]

\* RView::Initialize: every output raster is initialised to the size of its
\* viewer, all four flags are set
\* _sourceTransformFilter[i]: whether the displacement cache is attached,
\* the transformation it points to ("source": the object _sourceTransform
\* points to, "target": _targetTransform, "deleted": an object that was
\* deleted), and its invert flag
SourceFilter(cache, transformation, invert) ==
  [cache |-> cache, transformation |-> transformation, invert |-> invert]

\* delete _sourceTransform: the filters that point to it are left dangling
DeleteSourceTransform(s) ==
  [s EXCEPT !.sourceTransformFilter =
     [k \in 1 .. Len(@) |->
        IF @[k].transformation = "source"
        THEN [@[k] EXCEPT !.transformation = "deleted"] ELSE @[k]]]

\* the filter that Configure and ReadTransformation set up for a viewer
NewSourceFilter(s) ==
  SourceFilter(TRUE, IF s.sourceTransformApply THEN "source" ELSE "target",
               s.sourceTransformInvert)

\* Transformation::RequiresCachingOfDisplacements: the dense deformations
RequiresCachingOfDisplacements(transform) == transform.class \notin {"Rigid", "Affine"}

\* lines 2873-2908: the cache is initialised and marked modified if there is
\* a source volume and the transformation requires caching, else cleared
InitializeCache(s) ==
  [s EXCEPT !.sourceTransformCache =
     IF s.sourceImage # 0 /\ RequiresCachingOfDisplacements(s.sourceTransform)
     THEN [ModifiedCache EXCEPT !.snapshot = CacheSnapshot(s)] ELSE EmptyCache]

Initialize(s) ==
  InitializeCache(SetUpdateFlags(
    [s EXCEPT !.targetImageOutput       = [k \in 1 .. s.NoOfViewers |-> BlankRaster(s, k)],
              !.sourceImageOutput       = [k \in 1 .. s.NoOfViewers |-> BlankRaster(s, k)],
              !.segmentationImageOutput = [k \in 1 .. s.NoOfViewers |-> BlankRaster(s, k)],
              !.selectionImageOutput    = [k \in 1 .. s.NoOfViewers |-> BlankRaster(s, k)]]))

\* new Color[n]
NewDrawable(s) ==
  [k \in 1 .. s.NoOfViewers |-> [n \in 1 .. NumberOfVoxels(s, k) |-> Color]]

\* the loop of lines 2421-2427: "_isSourceViewer[i] = source_viewer[mode];
\* source_viewer[mode] = !source_viewer[mode]"; acc holds the flags assigned so
\* far and the array source_viewer
RECURSIVE SourceViewerLoop(_, _, _)
SourceViewerLoop(config, i, acc) ==
  IF i > Len(config) THEN acc.isSourceViewer
  ELSE LET mode == config[i].mode
       IN SourceViewerLoop(config, i + 1,
            [isSourceViewer |-> Append(acc.isSourceViewer, acc.source_viewer[mode]),
             source_viewer  |-> [acc.source_viewer EXCEPT ![mode] = ~@]])

\* variant: every viewer after the first of its plane is source-primary
IsSourceViewer_Repeated(config) ==
  [i \in 1 .. Len(config) |-> \E h \in 1 .. i - 1 : config[h].mode = config[i].mode]
IsSourceViewer(config) ==
  SourceViewerLoop(config, 1,
    [isSourceViewer |-> <<>>, source_viewer |-> [m \in ViewerModes |-> FALSE]])

\* the last viewer that shows the plane of the contour, 0 (for -1) if none
LastViewerOfMode(config, mode) ==
  LET same == {i \in 1 .. Len(config) : config[i].mode = mode}
  IN IF same = {} THEN 0 ELSE CHOOSE i \in same : \A h \in same : h <= i

Configure(s, config) ==
  LET s1 == [s EXCEPT !.NoOfViewers = Len(config),
                      !.viewer = config,
                      !.isSourceViewer = IsSourceViewer(config),
                      !.sourceTransformFilter =
                         [k \in 1 .. Len(config) |-> NewSourceFilter(s)]]
      s2 == Initialize(s1)
      s3 == IF s2.contourViewer # 0
            THEN [s2 EXCEPT !.contourViewer = LastViewerOfMode(config, s2.contourViewerMode)]
            ELSE s2
  IN SetUpdateFlags([s3 EXCEPT !.drawable = NewDrawable(s3)])

\* variant: the rasters and the colour buffers keep the size they had
Resize_KeepRasters(s, w, h) ==
  LET s0 == Log(s, "Resize", "", 0)
      s1 == IF w # s0.screenX \/ h # s0.screenY
            THEN [s0 EXCEPT !.screenX = w, !.screenY = h] ELSE s0
  IN Update(SetUpdateFlags(s1))

Resize(s, w, h) ==
  LET s0 == Log(s, "Resize", "", 0)
      s1 == IF w # s0.screenX \/ h # s0.screenY
            THEN [s0 EXCEPT !.screenX = w, !.screenY = h] ELSE s0
      s2 == Initialize(SetUpdateFlags(s1))
  IN Update([s2 EXCEPT !.drawable = NewDrawable(s2)])

\* BaseImage::Orientation: the code of an axis of an image, by the direction
\* of the patient it runs along
OrientationCodes == {"L2R", "R2L", "P2A", "A2P", "I2S", "S2I"}
CodeOf(axis) ==
  CASE axis = <<1, 0, 0>>  -> "L2R"
    [] axis = <<-1, 0, 0>> -> "R2L"
    [] axis = <<0, 1, 0>>  -> "P2A"
    [] axis = <<0, -1, 0>> -> "A2P"
    [] axis = <<0, 0, 1>>  -> "I2S"
    [] axis = <<0, 0, -1>> -> "S2I"
    [] OTHER               -> "Unknown"

\* GetOrientation and Orientation of an image with the given axes
ImageOrientation(axes) ==
  [axes |-> axes, codes |-> [i \in 1 .. 3 |-> CodeOf(axes[i])]]

DisplayModes == {"Native", "Neurological", "Radiological"}

\* one switch of Reset (lines 2076-2110 and its five siblings): the display
\* axis the physical axis goes to and the sign it is given; 0 for the default
\* case
AxisSlot(code) ==
  CASE code \in {"L2R", "R2L"} -> 1
    [] code \in {"P2A", "A2P"} -> 2
    [] code \in {"I2S", "S2I"} -> 3
    [] OTHER                   -> 0

\* variant: the radiological convention negates the axes the neurological
\* convention negates
AxisSign_OneConvention(mode, code) ==
  IF code \in {"L2R", "A2P", "S2I"} THEN -1 ELSE 1
AxisSign(mode, code) ==
  IF mode = "Neurological"
  THEN CASE code = "L2R" -> -1 [] code = "R2L" -> 1
         [] code = "P2A" -> 1  [] code = "A2P" -> -1
         [] code = "I2S" -> 1  [] OTHER        -> -1
  ELSE CASE code = "L2R" -> 1  [] code = "R2L" -> -1
         [] code = "P2A" -> 1  [] code = "A2P" -> -1
         [] code = "I2S" -> 1  [] OTHER        -> -1

\* the switches over iaxis, jaxis and kaxis, in this order; display holds
\* _xaxis, _yaxis and _zaxis
RECURSIVE OrientLoop(_, _, _, _)
OrientLoop(display, mode, orientation, p) ==
  IF p > 3 THEN display
  ELSE LET code == orientation.codes[p]
           next == IF AxisSlot(code) = 0 THEN display
                   ELSE [display EXCEPT ![AxisSlot(code)] =
                           Scale(AxisSign(mode, code), orientation.axes[p])]
       IN OrientLoop(next, mode, orientation, p + 1)

\* lines 2290-2309
FlipAxes(s, display) ==
  << IF s.FlipX THEN Scale(-1, display[1]) ELSE display[1],
     IF s.FlipY THEN Scale(-1, display[2]) ELSE display[2],
     IF s.FlipZ THEN Scale(-1, display[3]) ELSE display[3] >>

\* lines 2058-2309: the display axes from the orientation of the target
DisplayAxes(s) ==
  FlipAxes(s, IF s.DisplayMode = "Native" THEN s.targetOrientation.axes
              ELSE OrientLoop(<<s.xaxis, s.yaxis, s.zaxis>>, s.DisplayMode,
                              s.targetOrientation, 1))

\* RView::Reset: the display axes are worked out, the reslice origin goes to
\* the (rounded) centre of the target
Reset(s) ==
  LET axes == DisplayAxes(s)
  IN SetUpdateFlags(Initialize(
       [s EXCEPT !.xaxis = axes[1], !.yaxis = axes[2], !.zaxis = axes[3],
                 !.origin = << RoundHalf(GetX(s.targetImage) - 1),
                               RoundHalf(GetY(s.targetImage) - 1),
                               RoundHalf(GetZ(s.targetImage) - 1) >>]))

\* the voxels of a volume that was put together from a sequence of files:
\* the voxel type, the size, and the voxels of every frame (one value stands
\* for the voxels of a frame); NoVolume for every other volume
NoVolume == [type |-> "", size |-> 0, frames |-> <<>>]

\* RView::RView(x, y)
RView(x, y) ==
  Configure(
    [screenX |-> x, screenY |-> y,
     origin |-> <<0, 0, 0>>, resolution |-> 0,
     viewMode |-> "View_A", viewMix |-> Quarter \div 2,
     targetInterpolationMode |-> "NN", sourceInterpolationMode |-> "NN",
     targetFrame |-> 0, sourceFrame |-> 0,
     DisplaySegmentationLabels |-> FALSE,
     contourViewer |-> 0, contourViewerMode |-> "Viewer_XY",
     contourSize |-> 0, contourRaster |-> {}, rasterIsEmpty |-> TRUE,
     contourGrid |-> DisplayGrid(0, 0, "Viewer_XY", <<0, 0, 0>>, 0,
                                 <<<<1, 0, 0>>, <<0, 1, 0>>, <<0, 0, 1>>>>),
     xaxis |-> <<1, 0, 0>>, yaxis |-> <<0, 1, 0>>, zaxis |-> <<0, 0, 1>>,
     FlipX |-> FALSE, FlipY |-> FALSE, FlipZ |-> FALSE,
     DisplayMode |-> "Neurological",
     targetOrientation |-> ImageOrientation(<<<<1, 0, 0>>, <<0, 1, 0>>, <<0, 0, 1>>>>),
     contourHistory |-> <<>>,
     regionGrowingThresholdMin |-> 0, regionGrowingThresholdMax |-> 0,
     segmentationZeros |-> FALSE, segmentationPaint |-> [v \in {} |-> 0],
     roi1 |-> <<0, 0, 0>>, roi2 |-> <<0, 0, 0>>,
     configMode |-> "_View_XY_XZ_YZ", configFile |-> NoFile,
     display |-> [f \in DisplayFlags |-> f = "DisplayCursor"],
     CursorMode |-> "CrossHair", vtk |-> TRUE,
     NoOfViewers |-> 0, viewer |-> <<>>, isSourceViewer |-> <<>>,
     targetUpdate |-> FALSE, sourceUpdate |-> FALSE,
     segmentationUpdate |-> FALSE, selectionUpdate |-> FALSE,
     targetImage |-> 0, sourceImage |-> 0, segmentationImage |-> 0,
     targetVolume |-> NoVolume, sourceVolume |-> NoVolume,
     targetLandmarks |-> 0, sourceLandmarks |-> 0,
     sourceTransform |-> [class |-> "Affine", rigid |-> 0, affine |-> 0],
     sourceTransformApply |-> TRUE, sourceTransformInvert |-> FALSE,
     sourceTransformFilter |-> <<>>, sourceTransformCache |-> EmptyCache,
     targetLookupTable |-> LookupTable(0, MaxIntensity, "Luminance", Quarter),
     sourceLookupTable |-> LookupTable(0, MaxIntensity, "Luminance", Quarter),
     subtractionLookupTable |-> LookupTable(-MaxIntensity, MaxIntensity, "Luminance", Quarter),
     targetImageOutput |-> <<>>, sourceImageOutput |-> <<>>,
     segmentationImageOutput |-> <<>>, selectionImageOutput |-> <<>>,
     drawable |-> <<>>,
     running |-> TRUE, trace |-> <<>>],
    View_XY_XZ_YZ)


(***************************************************************************)
(* Loading volumes, landmarks and the source transformation                 *)
(***************************************************************************)
\* VoxelContour::Clear
ClearVoxelContour(s) ==
  [s EXCEPT !.contourSize = 0, !.contourRaster = {}, !.rasterIsEmpty = TRUE,
            !.contourHistory = <<>>]

\* LookupTable::Initialize(min, max)
InitializeLookupTable(lut, lo, hi) ==
  [lut EXCEPT !.minData = lo, !.maxData = hi, !.minDisplay = lo, !.maxDisplay = hi]

\* "Find bounding box": the corners of the region of interest go to the
\* first and the last voxel of volume img
BoundingBox(s, img) ==
  [s EXCEPT !.roi1 = ImageToWorld(img, <<0, 0, 0>>),
            !.roi2 = ImageToWorld(img, [i \in 1 .. 3 |-> 2 * (Dimensions(img)[i] - 1)])]

\* variant: the contour is left as it is
ReadTarget_KeepContour(s, img) ==
  LET s1 == [s EXCEPT !.targetImage = img, !.targetVolume = NoVolume,
                      !.targetOrientation =
                         ImageOrientation(<<<<1, 0, 0>>, <<0, 1, 0>>, <<0, 0, 1>>>>),
                      !.regionGrowingThresholdMin = 0,
                      !.regionGrowingThresholdMax = MaxSample,
                      !.targetLookupTable = InitializeLookupTable(@, 0, MaxIntensity),
                      !.subtractionLookupTable = InitializeLookupTable(@, -MaxIntensity, MaxIntensity)]
  IN Reset(BoundingBox(s1, img))

ReadTarget(s, img) ==
  LET s1 == [s EXCEPT !.targetImage = img, !.targetVolume = NoVolume,
                      !.targetOrientation =
                         ImageOrientation(<<<<1, 0, 0>>, <<0, 1, 0>>, <<0, 0, 1>>>>),
                      !.regionGrowingThresholdMin = 0,
                      !.regionGrowingThresholdMax = MaxSample,
                      !.targetLookupTable = InitializeLookupTable(@, 0, MaxIntensity),
                      !.subtractionLookupTable = InitializeLookupTable(@, -MaxIntensity, MaxIntensity)]
      s2 == BoundingBox(s1, img)
      s3 == IF s2.contourSize > 0 THEN ClearVoxelContour(s2) ELSE s2
  IN Reset(s3)

ReadSource(s, img) ==
  Initialize(
    [s EXCEPT !.sourceImage = img, !.sourceVolume = NoVolume,
              !.sourceLookupTable = InitializeLookupTable(@, 0, MaxIntensity),
              !.subtractionLookupTable = InitializeLookupTable(@, -MaxIntensity, MaxIntensity),
              !.sourceUpdate = TRUE])

\* An image file as Image::New reads it: the voxel type, the attributes
\* (size stands for the spatial attributes; time is <<_torigin, _dt>>; _t is
\* the number of frames), and the voxels of each of its frames.
ImageFile(type, size, time, voxels) ==
  [type |-> type, size |-> size, time |-> time, voxels |-> voxels]

\* the values a voxel of the type can hold; "other" is a voxel type that is
\* none of the six of the dynamic_cast chain
VoxelRange(type) ==
  CASE type = "unsigned char" -> 0 .. 1
    [] type = "short"         -> -1 .. 0
    [] OTHER                  -> 0 .. 0
SupportedTypes == {"unsigned char", "short"}

\* the attributes that are compared: _torigin and _dt are set to 0 and 1
ComparedAttributes(file) ==
  [size |-> file.size, t |-> Len(file.voxels), torigin |-> 0, dt |-> 1]

\* "Mismatch of image geometry in sequence"
GeometryMismatch(files) ==
  \E i \in 2 .. Len(files) :
     ComparedAttributes(files[i]) # ComparedAttributes(files[1])

\* PutAsDouble into a volume of the given voxel type: a value the type cannot
\* hold is converted to one it can hold (cast)
PutAsDouble(type, value, cast) ==
  IF value \in VoxelRange(type) THEN value ELSE cast

\* the volume of n frames of the type of the first file; frame i is
\* nimages[i]->GetAsDouble(x, y, z), the first frame of file i
MergeFiles(files, cast) ==
  [type   |-> files[1].type,
   size   |-> files[1].size,
   frames |-> [i \in 1 .. Len(files) |->
                 PutAsDouble(files[1].type, files[i].voxels[1], cast)]]

\* RView::ReadTarget(argc, argv)
ReadTargetFiles(s, files, cast) ==
  IF GeometryMismatch(files) THEN [s EXCEPT !.running = FALSE]
  ELSE IF files[1].type \notin SupportedTypes
  THEN [s EXCEPT !.targetImage = 0, !.targetVolume = NoVolume, !.running = FALSE]
  ELSE [ReadTarget(s, Len(files)) EXCEPT !.targetVolume = MergeFiles(files, cast)]

\* RView::ReadSource(argc, argv)
ReadSourceFiles(s, files, cast) ==
  IF GeometryMismatch(files) THEN [s EXCEPT !.running = FALSE]
  ELSE IF files[1].type \notin SupportedTypes
  THEN [s EXCEPT !.sourceImage = 0, !.sourceVolume = NoVolume, !.running = FALSE]
  ELSE [ReadSource(s, Len(files)) EXCEPT !.sourceVolume = MergeFiles(files, cast)]

ReadSegmentation(s, img) ==
  [BoundingBox(s, img)
     EXCEPT !.segmentationImage = img, !.segmentationZeros = FALSE,
            !.segmentationPaint = [v \in {} |-> 0], !.segmentationUpdate = TRUE]

ReadTargetLandmarks(s, n) == [s EXCEPT !.targetLandmarks = n]
ReadSourceLandmarks(s, n) == [s EXCEPT !.sourceLandmarks = n]

\* transformations a file can hold: the class tag and whether the rigid
\* parameters (0..5) and the remaining affine parameters are non-zero
TransformationFiles ==
  {[class |-> "Rigid", rigid |-> 1, affine |-> 0]}
    \cup [class : {"Affine"}, rigid : {0, 1}, affine : {0, 1}]

\* variant: the transformation is kept as it was read
ReadTransformation_AsRead(s, file) ==
  LET s1 == [DeleteSourceTransform(s) EXCEPT !.sourceTransform = file, !.sourceUpdate = TRUE]
  IN Initialize([s1 EXCEPT !.sourceTransformFilter =
                             [k \in 1 .. s1.NoOfViewers |-> NewSourceFilter(s1)]])

\* RView::ReadTransformation: a rigid transformation is converted to affine
ReadTransformation(s, file) ==
  LET read == IF file.class = "Rigid" THEN [file EXCEPT !.class = "Affine"] ELSE file
      s1 == [DeleteSourceTransform(s) EXCEPT !.sourceTransform = read, !.sourceUpdate = TRUE]
  IN Initialize([s1 EXCEPT !.sourceTransformFilter =
                             [k \in 1 .. s1.NoOfViewers |-> NewSourceFilter(s1)]])

\* RView::FitLandmarks: the registration is disabled (#if 0), the identity of
\* "mirtk::RigidTransformation transformation" is copied into parameters 0..5
FitLandmarks(s) ==
  IF s.targetLandmarks # s.sourceLandmarks THEN s
  ELSE [s EXCEPT !.sourceTransform.rigid = 0]

SetSourceTransformInvert(s, value) ==
  [s EXCEPT !.sourceTransformInvert = value, !.sourceUpdate = TRUE,
            !.sourceTransformFilter =
               [k \in 1 .. Len(@) |-> [@[k] EXCEPT !.invert = value]]]

SetSourceTransformApply(s, value) ==
  [s EXCEPT !.sourceTransformApply = value, !.sourceUpdate = TRUE,
            !.sourceTransformFilter =
               [k \in 1 .. Len(@) |->
                  [@[k] EXCEPT !.cache = value,
                               !.transformation = IF value THEN "source" ELSE "target"]]]

SetTargetFrame(s, t) ==
  [s EXCEPT !.targetFrame = t, !.targetUpdate = TRUE,
            !.sourceUpdate = IF s.sourceTransformApply THEN TRUE ELSE @]

SetSourceFrame(s, t) ==
  [s EXCEPT !.sourceFrame = IF t >= GetT(s.sourceImage) THEN GetT(s.sourceImage) - 1 ELSE t,
            !.sourceUpdate = TRUE]

InterpolationModes == {"NN", "Linear", "CSpline", "BSpline", "Sinc"}

SetTargetInterpolationMode(s, value) ==
  [s EXCEPT !.targetInterpolationMode = value, !.targetUpdate = TRUE]
SetSourceInterpolationMode(s, value) ==
  [s EXCEPT !.sourceInterpolationMode = value, !.sourceUpdate = TRUE]

(***************************************************************************)
(* Inline setters of RView.h                                                *)
(***************************************************************************)
ViewModes == {"View_A", "View_B", "View_VShutter", "View_HShutter", "View_Subtraction",
              "View_Checkerboard", "View_AoverB", "View_BoverA"}

SetViewMode(s, mode) == [s EXCEPT !.viewMode = mode]
SetViewMix(s, mix)   == [s EXCEPT !.viewMix = mix]
SetDisplaySegmentationLabels(s, value) == [s EXCEPT !.DisplaySegmentationLabels = value]

\* SetOrigin(x, y, z): the reslice origin, here in voxels of the target
SetOrigin(s, x, y, z) == SetUpdateFlags([s EXCEPT !.origin = <<x, y, z>>])

\* SetResolution: the resolution is kept as its logarithm in half octaves
SetResolution(s, r) == SetUpdateFlags(Initialize([s EXCEPT !.resolution = r]))

(***************************************************************************)
(* RView::Read and RView::Write: the configuration file                     *)
(***************************************************************************)
\* the switch of lines 1369-1424: the line written for _configMode
WriteConfigMode(configMode) ==
  CASE configMode = "_View_XY" -> << Line("configMode", "View_XY") >>
    [] configMode = "_View_XZ" -> << Line("configMode", "View_XZ") >>
    [] configMode = "_View_YZ" -> << Line("configMode", "View_YZ") >>
    [] configMode = "_View_XY_XZ_v" -> << Line("configMode", "View_XY_XZ_v") >>
    [] configMode = "_View_XY_YZ_v" -> << Line("configMode", "View_XY_YZ_v") >>
    [] configMode = "_View_XZ_YZ_v" -> << Line("configMode", "View_XZ_YZ_v") >>
    [] configMode = "_View_XY_XZ_h" -> << Line("configMode", "View_XY_XZ_h") >>
    [] configMode = "_View_XY_YZ_h" -> << Line("configMode", "View_XY_YZ_h") >>
    [] configMode = "_View_XZ_YZ_h" -> << Line("configMode", "View_XZ_YZ_h") >>
    [] configMode = "_View_XY_XZ_YZ" -> << Line("configMode", "View_XY_XZ_YZ") >>
    [] configMode = "_View_AB_XY_v" -> << Line("configMode", "View_AB_XY_v") >>
    [] configMode = "_View_AB_XZ_v" -> << Line("configMode", "View_AB_XZ_v") >>
    [] configMode = "_View_AB_YZ_v" -> << Line("configMode", "View_AB_YZ_v") >>
    [] configMode = "_View_AB_XY_XZ_v" -> << Line("configMode", "View_AB_XY_XZ_v") >>
    [] configMode = "_View_AB_XY_h" -> << Line("configMode", "View_AB_XY_h") >>
    [] configMode = "_View_AB_XZ_h" -> << Line("configMode", "View_AB_XZ_h") >>
    [] configMode = "_View_AB_YZ_h" -> << Line("configMode", "View_AB_YZ_h") >>
    [] configMode = "_View_AB_XY_XZ_h" -> << Line("configMode", "View_AB_XY_XZ_h") >>
    [] OTHER -> <<>>

\* the switch of lines 1483-1504: the line written for _viewMode
WriteViewMode(viewMode) ==
  CASE viewMode = "View_A" -> << Line("viewMode", "View_A") >>
    [] viewMode = "View_B" -> << Line("viewMode", "View_B") >>
    [] viewMode = "View_Checkerboard" -> << Line("viewMode", "View_Checkerboard") >>
    [] viewMode = "View_Subtraction" -> << Line("viewMode", "View_Subtraction") >>
    [] viewMode = "View_HShutter" -> << Line("viewMode", "View_HShutter") >>
    [] viewMode = "View_VShutter" -> << Line("viewMode", "View_VShutter") >>
    [] OTHER -> <<>>

\* lines 1439-1477: the line written for an interpolation mode
WriteInterpolation(key, mode) ==
  CASE mode = "NN" -> << Line(key, "mirtk::Interpolation_NN") >>
    [] mode = "Linear" -> << Line(key, "mirtk::Interpolation_Linear") >>
    [] mode = "CSpline" -> << Line(key, "Interpolation_C1Spline") >>
    [] mode = "BSpline" -> << Line(key, "mirtk::Interpolation_BSpline") >>
    [] mode = "Sinc" -> << Line(key, "mirtk::Interpolation_Sinc") >>
    [] OTHER -> <<>>

\* a bool is written as 0 or 1
WriteFlag(s, f) == << Number(f, IF s.display[f] THEN 1 ELSE 0) >>

\* lines 1518-1531: the line written for _CursorMode
WriteCursorMode(mode) ==
  CASE mode = "CrossHair" -> << Line("CursorMode", "CrossHair") >>
    [] mode = "CursorX" -> << Line("CursorMode", "CursorX") >>
    [] mode = "CursorV" -> << Line("CursorMode", "CursorV") >>
    [] mode = "CursorBar" -> << Line("CursorMode", "CursorBar") >>
    [] OTHER -> <<>>

\* lines 1511-1546: the display configuration
WriteDisplay(s) ==
  << Number("viewMix", s.viewMix) >>
  \o WriteFlag(s, "DisplayTargetContour") \o WriteFlag(s, "DisplaySourceContour")
  \o WriteFlag(s, "DisplayCursor") \o WriteCursorMode(s.CursorMode)
  \o WriteFlag(s, "DisplayDeformationGrid") \o WriteFlag(s, "DisplayDeformationPoints")
  \o WriteFlag(s, "DisplayDeformationArrows") \o WriteFlag(s, "DisplayLandmarks")
  \o (IF s.vtk
      THEN WriteFlag(s, "DisplayObject") \o WriteFlag(s, "DisplayObjectWarp")
           \o WriteFlag(s, "DisplayObjectGrid")
      ELSE <<>>)

\* the switch over GetColorMode() of a lookup table
WriteColorMode(key, mode) ==
  CASE mode = "Red" -> << Line(key, "ColorMode_Red") >>
    [] mode = "Green" -> << Line(key, "ColorMode_Green") >>
    [] mode = "Blue" -> << Line(key, "ColorMode_Blue") >>
    [] mode = "Luminance" -> << Line(key, "ColorMode_Luminance") >>
    [] mode = "Rainbow" -> << Line(key, "ColorMode_Rainbow") >>
    [] OTHER -> <<>>

\* lines 1550-1621: the three lines of a lookup table
WriteLookupTable(name, lut) ==
  << Number(name \o "_minDisplay", lut.minDisplay),
     Number(name \o "_maxDisplay", lut.maxDisplay) >>
  \o WriteColorMode(name \o "_mode", lut.mode)

\* RView::Write: the lines of the file, in the order they are written
WriteLines(s) ==
  WriteConfigMode(s.configMode)
  \o << Number("screenX", s.screenX), Number("screenY", s.screenY),
        Number("origin_x", s.origin[1]), Number("origin_y", s.origin[2]),
        Number("origin_z", s.origin[3]), Number("resolution", s.resolution) >>
  \o WriteInterpolation("targetInterpolationMode", s.targetInterpolationMode)
  \o WriteInterpolation("sourceInterpolationMode", s.sourceInterpolationMode)
  \o WriteViewMode(s.viewMode)
  \o WriteDisplay(s)
  \o WriteLookupTable("targetLookupTable", s.targetLookupTable)
  \o WriteLookupTable("sourceLookupTable", s.sourceLookupTable)
  \o WriteLookupTable("subtractionLookupTable", s.subtractionLookupTable)

\* the fields of the viewer that the configuration file holds
ConfigurationOf(s) ==
  [configMode |-> s.configMode, screenX |-> s.screenX, screenY |-> s.screenY,
   origin |-> s.origin, resolution |-> s.resolution,
   targetInterpolationMode |-> s.targetInterpolationMode,
   sourceInterpolationMode |-> s.sourceInterpolationMode,
   viewMode |-> s.viewMode, viewMix |-> s.viewMix,
   display |-> s.display, CursorMode |-> s.CursorMode,
   targetLookupTable |-> s.targetLookupTable,
   sourceLookupTable |-> s.sourceLookupTable,
   subtractionLookupTable |-> s.subtractionLookupTable]

Write(s) == [s EXCEPT !.configFile = ConfigFile(WriteLines(s), ConfigurationOf(s))]

\* strstr(buffer1, pattern): the keys of the file that hold a longer pattern
\* than themselves; no value of a line holds a pattern
Substrings ==
  { <<"DisplayObjectWarp", "DisplayObject">>, <<"DisplayObjectGrid", "DisplayObject">>,
    <<"targetLookupTable_minDisplay", "targetLookupTable_min">>,
    <<"targetLookupTable_maxDisplay", "targetLookupTable_max">>,
    <<"sourceLookupTable_minDisplay", "sourceLookupTable_min">>,
    <<"sourceLookupTable_maxDisplay", "sourceLookupTable_max">>,
    <<"subtractionLookupTable_minDisplay", "subtractionLookupTable_min">>,
    <<"subtractionLookupTable_maxDisplay", "subtractionLookupTable_max">> }
Contains(line, pattern) == line.key = pattern \/ <<line.key, pattern>> \in Substrings

\* lines 958-1014: the chain of comparisons of a configMode line
ReadConfigMode(configMode, value) ==
  CASE value = "View_XY" -> "_View_XY"
    [] value = "View_XZ" -> "_View_XZ"
    [] value = "View_YZ" -> "_View_YZ"
    [] value = "View_XY_XZ_v" -> "_View_XY_XZ_v"
    [] value = "View_XY_YZ_v" -> "_View_XY_YZ_v"
    [] value = "View_XZ_YZ_v" -> "_View_XZ_YZ_v"
    [] value = "View_XY_XZ_h" -> "_View_XY_XZ_h"
    [] value = "View_XY_YZ_h" -> "_View_XY_YZ_h"
    [] value = "View_XZ_YZ_h" -> "_View_XZ_YZ_h"
    [] value = "View_XY_XZ_YZ" -> "_View_XY_XZ_YZ"
    [] value = "View_AB_XY_v" -> "_View_AB_XY_v"
    [] value = "View_AB_XZ_v" -> "_View_AB_XZ_v"
    [] value = "View_AB_YZ_v" -> "_View_AB_YZ_v"
    [] value = "View_AB_XY_XZ_v" -> "_View_AB_XY_XZ_v"
    [] value = "View_AB_XY_h" -> "_View_AB_XY_v"
    [] value = "View_AB_XZ_h" -> "_View_AB_XZ_v"
    [] value = "View_AB_YZ_h" -> "_View_AB_YZ_v"
    [] value = "View_AB_XY_XZ_h" -> "_View_AB_XY_XZ_v"
    [] OTHER -> configMode

\* lines 1103-1123: the chain of comparisons of a viewMode line
ReadViewMode(viewMode, value) ==
  CASE value = "View_A" -> "View_A"
    [] value = "View_B" -> "View_B"
    [] value = "View_Checkerboard" -> "View_Checkerboard"
    [] value = "View_Subtraction" -> "View_Subtraction"
    [] value = "View_HShutter" -> "View_HShutter"
    [] value = "View_VShutter" -> "View_VShutter"
    [] OTHER -> viewMode

\* variant: an unknown token is taken for nearest neighbour
ReadInterpolation_Lenient(value) ==
  CASE value = "mirtk::Interpolation_Linear" -> "Linear"
    [] value = "Interpolation_C1Spline" -> "CSpline"
    [] value = "mirtk::Interpolation_BSpline" -> "BSpline"
    [] value = "mirtk::Interpolation_Sinc" -> "Sinc"
    [] OTHER -> "NN"

\* lines 1049-1067 and 1078-1096: the token of an interpolation mode; any
\* other token is fatal
ReadInterpolation(value) ==
  CASE value = "mirtk::Interpolation_NN" -> "NN"
    [] value = "mirtk::Interpolation_Linear" -> "Linear"
    [] value = "Interpolation_C1Spline" -> "CSpline"
    [] value = "mirtk::Interpolation_BSpline" -> "BSpline"
    [] value = "mirtk::Interpolation_Sinc" -> "Sinc"
    [] OTHER -> "Unknown"

\* lines 1044-1100: the local starts at NN for every line, a
\* targetInterpolationMode line and then a sourceInterpolationMode line
\* overwrite it, and both interpolators are made anew from it
ReadInterpolators(s, line) ==
  LET first == IF Contains(line, "targetInterpolationMode")
               THEN ReadInterpolation(line.value) ELSE "NN"
      second == IF Contains(line, "sourceInterpolationMode")
                THEN ReadInterpolation(line.value) ELSE first
  IN IF first = "Unknown" THEN [s EXCEPT !.running = FALSE]
     ELSE IF second = "Unknown"
     THEN [s EXCEPT !.targetInterpolationMode = first, !.running = FALSE]
     ELSE [s EXCEPT !.targetInterpolationMode = first,
                    !.sourceInterpolationMode = second]

\* lines 1146-1161: the chain of comparisons of a CursorMode line
ReadCursorMode(mode, value) ==
  CASE value = "CrossHair" -> "CrossHair"
    [] value = "CursorX" -> "CursorX"
    [] value = "CursorV" -> "CursorV"
    [] value = "CursorBar" -> "CursorBar"
    [] OTHER -> mode

\* lines 1130-1199: every flag whose name the line holds takes atoi of the
\* value; the three flags of the object only when built with VTK
ReadFlags(s, line) ==
  [s EXCEPT !.display =
     [f \in DisplayFlags |->
        IF Contains(line, f) /\ (f \in ObjectFlags => s.vtk)
        THEN line.number # 0 ELSE s.display[f]],
   !.CursorMode = IF Contains(line, "CursorMode")
                  THEN ReadCursorMode(@, line.value) ELSE @]

\* SetColorModeToRed() .. SetColorModeToRainbow(), by the token of the line
ReadColorMode(lut, value) ==
  CASE value = "ColorMode_Red" -> [lut EXCEPT !.mode = "Red"]
    [] value = "ColorMode_Green" -> [lut EXCEPT !.mode = "Green"]
    [] value = "ColorMode_Blue" -> [lut EXCEPT !.mode = "Blue"]
    [] value = "ColorMode_Luminance" -> [lut EXCEPT !.mode = "Luminance"]
    [] value = "ColorMode_Rainbow" -> [lut EXCEPT !.mode = "Rainbow"]
    [] OTHER -> lut

\* variant: a line of any table is taken for the table
ReadLookupTable_AnyTable(name, lut, line) ==
  LET l1 == IF \E n \in TableNames : Contains(line, n \o "_min")
            THEN SetMinDisplayIntensity(lut, line.number) ELSE lut
      l2 == IF \E n \in TableNames : Contains(line, n \o "_max")
            THEN SetMaxDisplayIntensity(l1, line.number) ELSE l1
  IN IF \E n \in TableNames : Contains(line, n \o "_mode")
     THEN ReadColorMode(l2, line.value) ELSE l2

\* lines 1201-1282: the three keys of one lookup table
ReadLookupTable(name, lut, line) ==
  LET l1 == IF Contains(line, name \o "_min")
            THEN SetMinDisplayIntensity(lut, line.number) ELSE lut
      l2 == IF Contains(line, name \o "_max")
            THEN SetMaxDisplayIntensity(l1, line.number) ELSE l1
  IN IF Contains(line, name \o "_mode") THEN ReadColorMode(l2, line.value) ELSE l2

\* lines 958-1042: the layout, the size of the window (both keys set
\* _screenY), the origin and the resolution
ReadWindow(s, line) ==
  [s EXCEPT
     !.configMode = IF Contains(line, "configMode")
                    THEN ReadConfigMode(@, line.value) ELSE @,
     !.screenY = IF Contains(line, "screenX") \/ Contains(line, "screenY")
                 THEN line.number ELSE @,
     !.origin = << IF Contains(line, "origin_x") THEN line.number ELSE @[1],
                   IF Contains(line, "origin_y") THEN line.number ELSE @[2],
                   IF Contains(line, "origin_z") THEN line.number ELSE @[3] >>,
     !.resolution = IF Contains(line, "resolution") THEN line.number ELSE @]

\* lines 1103-1282: the view mode, the view mix, the flags and the tables
ReadDisplay(s, line) ==
  LET s1 == [s EXCEPT
               !.viewMode = IF Contains(line, "viewMode")
                            THEN ReadViewMode(@, line.value) ELSE @,
               !.viewMix = IF Contains(line, "viewMix") THEN line.number ELSE @]
  IN [ReadFlags(s1, line) EXCEPT
        !.targetLookupTable = ReadLookupTable("targetLookupTable", @, line),
        !.sourceLookupTable = ReadLookupTable("sourceLookupTable", @, line),
        !.subtractionLookupTable = ReadLookupTable("subtractionLookupTable", @, line)]

\* read_line and the body of the loop of Read for one line: a line without
\* '=' and an unknown interpolation token end the process
ReadLine(s, line) ==
  IF ~line.eq THEN [s EXCEPT !.running = FALSE]
  ELSE LET s1 == ReadInterpolators(ReadWindow(s, line), line)
       IN IF s1.running THEN ReadDisplay(s1, line) ELSE s1

RECURSIVE ReadLines(_, _, _)
ReadLines(s, lines, n) ==
  IF n > Len(lines) \/ ~s.running THEN s
  ELSE ReadLines(ReadLine(s, lines[n]), lines, n + 1)

\* RView::Read: the lines are taken in, then the viewer is configured with
\* the preset of _configMode
Read(s, file) ==
  LET s1 == ReadLines(s, file.lines, 1)
  IN IF s1.running
     THEN Configure(Log(s1, "Configure", "", 0), Preset(s1.configMode))
     ELSE s1

(***************************************************************************)
(* Contour                                                                  *)
(***************************************************************************)
\* pointer pixel (i, j) lies in the viewport of viewer k: x = i / screenX,
\* y = (screenY - j) / screenY, x1 <= x < x2 and y1 <= y < y2
InViewport(s, k, i, j) ==
  /\ 2 * i >= s.viewer[k].xmin * s.screenX
  /\ 2 * i <  s.viewer[k].xmax * s.screenX
  /\ 2 * (s.screenY - j) >= s.viewer[k].ymin * s.screenY
  /\ 2 * (s.screenY - j) <  s.viewer[k].ymax * s.screenY

\* the viewer the loop of lines 741-747 leaves in _contourViewer
HitViewer(s, i, j) ==
  LET hit == {k \in 1 .. s.NoOfViewers : InViewport(s, k, i, j)}
  IN IF hit = {} THEN s.contourViewer ELSE CHOOSE k \in hit : \A h \in hit : h <= k

\* the raster voxel (1-based) of pointer pixel (i, j) in the grid of viewer k
ContourVoxel(s, k, i, j) ==
  LET x == i - (s.viewer[k].xmin * s.screenX) \div 2
      y == (s.screenY - j) - (s.viewer[k].ymin * s.screenY) \div 2
  IN y * Width(s, k) + x + 1

\* the pointer test of lines 748-751 (AddContour), 806-809 (FillArea) and
\* 846-849 (RegionGrowContour): the contour is open and the pointer lies
\* outside the viewport of its viewer
PointerRejected(s, i, j) ==
  s.contourSize > 0 /\ ~InViewport(s, s.contourViewer, i, j)

\* VoxelContour::Initialise(rview, _targetImageOutput[k]): an empty raster on
\* the grid of viewer k, no history
Initialise(s, k) ==
  [s EXCEPT !.contourRaster = {}, !.rasterIsEmpty = FALSE,
            !.contourGrid = ViewerGrid(s, k), !.contourHistory = <<>>]

\* the part the three operations share: the viewer of a first point, then
\* "if (_voxelContour.Size() == 0) _voxelContour.Initialise(...)"
LocateContour(s, i, j) ==
  LET first == s.contourSize = 0
      k == IF first THEN HitViewer(s, i, j) ELSE s.contourViewer
      hit == \E h \in 1 .. s.NoOfViewers : InViewport(s, h, i, j)
      s1 == [s EXCEPT !.contourViewer = k,
                      !.contourViewerMode = IF first /\ hit THEN s.viewer[k].mode ELSE @]
  IN IF first THEN Initialise(s1, k) ELSE s1

\* VoxelContour: every modifying operation keeps what it found for Undo
Remember(s) ==
  [s EXCEPT !.contourHistory =
     Append(@, [raster |-> s.contourRaster, size |-> s.contourSize])]

\* VoxelContour::AddPointSet / AddPoint / Close: the voxel of the point is drawn
AddPoint(s, n) ==
  [Remember(s) EXCEPT !.contourRaster = @ \cup {n}, !.contourSize = @ + 1]

\* raster voxels n and m of a grid of width w are neighbours
Adjacent(n, m, w) ==
  LET dx == ((n - 1) % w) - ((m - 1) % w)
      dy == ((n - 1) \div w) - ((m - 1) \div w)
  IN dx * dx + dy * dy = 1

\* the voxels of allowed connected to region
RECURSIVE Grow(_, _, _)
Grow(region, allowed, w) ==
  LET next == region \cup {m \in allowed : \E n \in region : Adjacent(n, m, w)}
  IN IF next = region THEN region ELSE Grow(next, allowed, w)

GridVoxels(grid) == 1 .. grid.width * grid.height

\* VoxelContour::FillArea: flood fill from the voxel of the point, bounded by
\* the voxels drawn so far
FloodFill(s, n) ==
  LET allowed == GridVoxels(s.contourGrid) \ s.contourRaster
      filled == IF n \in allowed THEN Grow({n}, allowed, s.contourGrid.width) ELSE {}
  IN [Remember(s) EXCEPT !.contourRaster = @ \cup filled, !.contourSize = @ + 1]

\* VoxelContour::RegionGrowing (2-D): the connected voxels of the reference
\* raster whose sample lies within the thresholds
RegionGrowing(s, n, lo, hi) ==
  LET reference == s.targetImageOutput[s.contourViewer]
      allowed == {m \in GridVoxels(s.contourGrid) \cap DOMAIN reference :
                    reference[m] >= lo /\ reference[m] <= hi}
      grown == IF n \in allowed THEN Grow({n}, allowed, s.contourGrid.width) ELSE {}
  IN [Remember(s) EXCEPT !.contourRaster = @ \cup grown, !.contourSize = @ + 1]

\* VoxelContour::Undo: the raster before the last modifying operation
Undo(s) ==
  IF s.contourHistory = <<>> THEN s
  ELSE LET last == s.contourHistory[Len(s.contourHistory)]
       IN [s EXCEPT !.contourRaster = last.raster, !.contourSize = last.size,
                    !.contourHistory = SubSeq(@, 1, Len(@) - 1)]

\* variant: a point outside the viewport of the contour is drawn as well
AddContour_AnyPointer(s, i, j) ==
  LET c == LocateContour(s, i, j)
  IN [AddPoint(c, ContourVoxel(c, c.contourViewer, i, j)) EXCEPT !.selectionUpdate = TRUE]
AddContour(s, i, j) ==
  IF PointerRejected(s, i, j) THEN s
  ELSE LET c == LocateContour(s, i, j)
       IN [AddPoint(c, ContourVoxel(c, c.contourViewer, i, j))
             EXCEPT !.selectionUpdate = TRUE]

FillArea(s, i, j) ==
  IF PointerRejected(s, i, j) THEN s
  ELSE LET c == LocateContour(s, i, j)
       IN [FloodFill(c, ContourVoxel(c, c.contourViewer, i, j))
             EXCEPT !.selectionUpdate = TRUE]

RegionGrowContour(s, i, j) ==
  IF PointerRejected(s, i, j) THEN s
  ELSE LET c == LocateContour(s, i, j)
       IN [RegionGrowing(c, ContourVoxel(c, c.contourViewer, i, j),
                         c.regionGrowingThresholdMin, c.regionGrowingThresholdMax)
             EXCEPT !.selectionUpdate = TRUE]

\* variant: the raster is restored, the selection is not marked dirty
UndoContour_RasterOnly(s) == Undo(s)
UndoContour(s) == [Undo(s) EXCEPT !.selectionUpdate = TRUE]

ClearContour(s) == [ClearVoxelContour(s) EXCEPT !.selectionUpdate = TRUE]

\* what GenericImage::Put does with a voxel outside the volume is decided by
\* the build of the image library: it checks the range and writes nothing, it
\* writes at the offset the indices add up to, or the write faults
Builds == {"checked", "unchecked", "fault"}

\* the offset of voxel v in the buffer of volume img, and the voxel at an offset
OffsetOf(img, v) == v[1] + GetX(img) * (v[2] + GetY(img) * v[3])
VoxelAt(img, o) == << o % GetX(img), (o \div GetX(img)) % GetY(img),
                      o \div (GetX(img) * GetY(img)) >>

\* the voxels of volume img an unchecked Put(v) changes
Landing(img, v) ==
  IF InsideVolume(img, v) THEN {v}
  ELSE IF OffsetOf(img, v) >= 0 /\ OffsetOf(img, v) < GetX(img) * GetY(img) * GetZ(img)
       THEN {VoxelAt(img, OffsetOf(img, v))}
       ELSE {}

\* the voxel of the segmentation the loop of lines 896-909 computes for raster
\* voxel n: ImageToWorld of the raster, WorldToImage of the segmentation, round
FillTarget(s, n) == WorldToVoxel(s.segmentationImage, GridToWorld(s.contourGrid, n))

FillContour(s, fill, build) ==
  LET s1 == IF s.segmentationImage = 0
            THEN [s EXCEPT !.segmentationImage = s.targetImage,
                           !.segmentationZeros = TRUE,
                           !.segmentationPaint = [v \in {} |-> 0]]
            ELSE s
      seg == s1.segmentationImage
      puts == {FillTarget(s1, n) : n \in s1.contourRaster}
      written == IF build = "checked" THEN {v \in puts : InsideVolume(seg, v)}
                 ELSE UNION {Landing(seg, v) : v \in puts}
      s2 == [s1 EXCEPT !.segmentationPaint =
               [v \in DOMAIN @ \cup written |-> IF v \in written THEN fill ELSE @[v]]]
  IN IF build = "fault" /\ \E v \in puts : ~InsideVolume(seg, v)
     THEN [s1 EXCEPT !.running = FALSE]
     ELSE [ClearVoxelContour(s2) EXCEPT !.segmentationUpdate = TRUE,
                                        !.selectionUpdate = TRUE]


(***************************************************************************)
(* Region of interest                                                       *)
(***************************************************************************)
ResetROI(s) == BoundingBox(s, s.targetImage)

\* the point of the plane of viewer k under pointer pixel (i, j)
PointerPixel(s, k, i, j) ==
  << i - (s.viewer[k].xmin * s.screenX) \div 2,
     (s.screenY - j) - (s.viewer[k].ymin * s.screenY) \div 2 >>

\* the test of the loops of UpdateROI1 and UpdateROI2: the locals p hold the
\* normalised pointer until the first viewer is hit and the position of the
\* corner afterwards
ROIHit(s, k, i, j, hit, p) ==
  IF ~hit THEN InViewport(s, k, i, j)
  ELSE /\ p[1] >= s.viewer[k].xmin /\ p[1] < s.viewer[k].xmax
       /\ p[2] >= s.viewer[k].ymin /\ p[2] < s.viewer[k].ymax

\* lines 661-672: corner 1 is kept at or above voxel 0 and at or below corner 2
ClampROI1(a, b) ==
  LET lo == IF RoundHalf(a) < 0 THEN 0 ELSE a
  IN IF RoundHalf(lo) > RoundHalf(b) THEN 2 * RoundHalf(b) ELSE lo

\* lines 708-719: corner 2 is kept inside the target and at or above corner 1
ClampROI2(a, b, dim) ==
  LET hi == IF RoundHalf(a) >= dim THEN 2 * (dim - 1) ELSE a
  IN IF RoundHalf(hi) < RoundHalf(b) THEN b ELSE hi

\* the loop of UpdateROI1 over the viewers from k on; local holds roi1_x..z
\* and roi2_x..z
RECURSIVE UpdateROI1Loop(_, _, _, _, _)
UpdateROI1Loop(s, k, i, j, local) ==
  IF k > s.NoOfViewers THEN s
  ELSE IF ~ROIHit(s, k, i, j, local.hit, local.roi1)
  THEN UpdateROI1Loop(s, k + 1, i, j, local)
  ELSE LET px == PointerPixel(s, k, i, j)
           world == PixelToWorld(ViewerGrid(s, k), px[1], px[2], s.roi1)
           r1 == WorldToImage(s.targetImage, world)
           r2 == WorldToImage(s.targetImage, local.roi2)
           c1 == [a \in 1 .. 3 |-> ClampROI1(r1[a], r2[a])]
           w1 == ImageToWorld(s.targetImage, c1)
       IN UpdateROI1Loop([s EXCEPT !.roi1 = w1], k + 1, i, j,
                         [hit |-> TRUE, roi1 |-> w1, roi2 |-> r2])

UpdateROI1(s, i, j) ==
  UpdateROI1Loop(s, 1, i, j, [hit |-> FALSE, roi1 |-> <<0, 0, 0>>, roi2 |-> s.roi2])

RECURSIVE UpdateROI2Loop(_, _, _, _, _)
UpdateROI2Loop(s, k, i, j, local) ==
  IF k > s.NoOfViewers THEN s
  ELSE IF ~ROIHit(s, k, i, j, local.hit, local.roi2)
  THEN UpdateROI2Loop(s, k + 1, i, j, local)
  ELSE LET px == PointerPixel(s, k, i, j)
           world == PixelToWorld(ViewerGrid(s, k), px[1], px[2], s.roi2)
           r1 == WorldToImage(s.targetImage, local.roi1)
           r2 == WorldToImage(s.targetImage, world)
           c2 == [a \in 1 .. 3 |->
                    ClampROI2(r2[a], r1[a], Dimensions(s.targetImage)[a])]
           w2 == ImageToWorld(s.targetImage, c2)
       IN UpdateROI2Loop([s EXCEPT !.roi2 = w2], k + 1, i, j,
                         [hit |-> TRUE, roi1 |-> r1, roi2 |-> w2])

UpdateROI2(s, i, j) ==
  UpdateROI2Loop(s, 1, i, j, [hit |-> FALSE, roi1 |-> s.roi1, roi2 |-> <<0, 0, 0>>])


(***************************************************************************)
(* The reslice origin set with the pointer: SetOrigin(i, j) and MouseWheel; *)
(* _SnapToGrid is true, as the constructor sets it                          *)
(***************************************************************************)
\* the axes of a display grid: along its rows, along its columns, across it
GridAxes(grid) ==
  CASE grid.mode = "Viewer_XY" -> << grid.axes[1], grid.axes[2], grid.axes[3] >>
    [] grid.mode = "Viewer_XZ" -> << grid.axes[1], grid.axes[3], grid.axes[2] >>
    [] OTHER                   -> << grid.axes[2], grid.axes[3], grid.axes[1] >>

\* ImageToWorld of a display grid for the point of its plane that lies a/2
\* pixels along the rows and b/2 pixels along the columns from its centre
PlaneToWorld(grid, a, b) ==
  Plus(GridOrigin(grid), Plus(Scale(a, GridAxes(grid)[1]), Scale(b, GridAxes(grid)[2])))

\* "(_origin_x - x1) / (x2 - x1) * GetWidth()" and ImageToWorld of the raster
\* of viewer k: for the normalised pointer, and for a position p that an
\* earlier iteration left in _origin_x, _origin_y
PointerToWorld(s, k, i, j) ==
  LET px == PointerPixel(s, k, i, j)
  IN PlaneToWorld(ViewerGrid(s, k), 2 * px[1] - (Width(s, k) - 1),
                                    2 * px[2] - (Height(s, k) - 1))
PositionToWorld(s, k, p) ==
  PlaneToWorld(ViewerGrid(s, k),
               (p[1] - s.viewer[k].xmin) * s.screenX - (Width(s, k) - 1),
               (p[2] - s.viewer[k].ymin) * s.screenY - (Height(s, k) - 1))

\* round(n / d) for n >= 0 and d > 0
RoundDiv(n, d) == (2 * n + d) \div (2 * d)

\* WorldToImage of the target and round() for the position whose x and y are
\* the normalised pointer i / _screenX and (_screenY - j) / _screenY (in mm)
\* and whose z is z (in halves of a voxel)
NormalizedVoxel(s, i, j, z) ==
  << RoundDiv(2 * i + s.screenX * (GetX(s.targetImage) - 1), 2 * s.screenX),
     RoundDiv(2 * (s.screenY - j) + s.screenY * (GetY(s.targetImage) - 1), 2 * s.screenY),
     RoundHalf(z + GetZ(s.targetImage) - 1) >>

\* the loop of SetOrigin(i, j) over the viewers from k on: local.p holds
\* _origin_x, _origin_y, _origin_z once a viewer was hit
RECURSIVE SetOriginLoop(_, _, _, _, _)
SetOriginLoop(s, k, i, j, local) ==
  IF k > s.NoOfViewers THEN local
  ELSE IF ~ROIHit(s, k, i, j, local.hit, local.p)
  THEN SetOriginLoop(s, k + 1, i, j, local)
  ELSE SetOriginLoop(s, k + 1, i, j,
         [hit |-> TRUE,
          p   |-> IF local.hit THEN PositionToWorld(s, k, local.p)
                  ELSE PointerToWorld(s, k, i, j)])

\* RView::SetOrigin(int i, int j)
SetOriginPointer(s, i, j) ==
  LET local == SetOriginLoop(s, 1, i, j, [hit |-> FALSE, p |-> GridOrigin(ViewerGrid(s, 1))])
  IN SetUpdateFlags(
       [s EXCEPT !.origin = IF local.hit THEN WorldToVoxel(s.targetImage, local.p)
                            ELSE NormalizedVoxel(s, i, j, local.p[3])])

\* the loop of MouseWheel over the viewers from k on: local.p holds u, v, w
\* once a viewer was hit
RECURSIVE MouseWheelLoop(_, _, _, _, _, _)
MouseWheelLoop(s, k, i, j, wheel, local) ==
  IF k > s.NoOfViewers THEN local
  ELSE IF ~ROIHit(s, k, i, j, local.hit, local.p)
  THEN MouseWheelLoop(s, k + 1, i, j, wheel, local)
  ELSE MouseWheelLoop(s, k + 1, i, j, wheel,
         [hit |-> TRUE,
          p   |-> Plus(GridOrigin(ViewerGrid(s, k)),
                       Scale(2 * wheel, GridAxes(ViewerGrid(s, k))[3]))])

\* RView::MouseWheel
MouseWheel(s, i, j, wheel) ==
  LET local == MouseWheelLoop(s, 1, i, j, wheel, [hit |-> FALSE, p |-> <<0, 0, 0>>])
  IN SetUpdateFlags(
       [s EXCEPT !.origin = IF local.hit THEN WorldToVoxel(s.targetImage, local.p)
                            ELSE NormalizedVoxel(s, i, j, 0)])

(***************************************************************************)
(* Event handlers                                                           *)
(***************************************************************************)
\* RView::DrawOffscreen
DrawOffscreen(s) == Draw(Resize(s, s.screenX, s.screenY))

SpecialKeys == {"F1", "F2", "F3", "F4", "F5", "F6", "F7", "F8", "F9", "F10", "F11", "F12",
                "other"}

\* the switch of RView::cb_special
SpecialKey(s, key, target_delta, source_delta) ==
  CASE key = "F1" -> [s EXCEPT !.targetLookupTable =
                        SetMinDisplayIntensity(@, @.minDisplay + target_delta)]
    [] key = "F2" -> [s EXCEPT !.targetLookupTable =
                        SetMinDisplayIntensity(@, @.minDisplay - target_delta)]
    [] key = "F3" -> [s EXCEPT !.targetLookupTable =
                        SetMaxDisplayIntensity(@, @.maxDisplay + target_delta)]
    [] key = "F4" -> [s EXCEPT !.targetLookupTable =
                        SetMaxDisplayIntensity(@, @.maxDisplay - target_delta)]
    [] key = "F5" -> [s EXCEPT !.sourceLookupTable =
                        SetMinDisplayIntensity(@, @.minDisplay + source_delta)]
    [] key = "F6" -> [s EXCEPT !.sourceLookupTable =
                        SetMinDisplayIntensity(@, @.minDisplay - source_delta)]
    [] key = "F7" -> [s EXCEPT !.sourceLookupTable =
                        SetMaxDisplayIntensity(@, @.maxDisplay + source_delta)]
    [] key = "F8" -> [s EXCEPT !.sourceLookupTable =
                        SetMaxDisplayIntensity(@, @.maxDisplay - source_delta)]
    \* F9, F10 toggle the isolines Draw() adds; F11, F12 and any other key do nothing
    [] OTHER -> s

cb_special(s, key, target_delta, source_delta) ==
  Draw(Update(Log(SpecialKey(s, key, target_delta, source_delta), "Mutate", "", 0)))

ExitKeys == {"Esc", "q"}
InterpolationKeys == {"l", "n", "c", "b", "S"}
ViewModeKeys == {"t", "s", "m", "d"}
OriginKeys == {"x", "X", "y", "Y", "z", "Z"}
FrameKeys == {"+", "-"}
ResolutionKeys == {">", "<", ".", ","}
\* keys that change what Draw() adds on top of the drawables (cursor,
\* deformation grid, points, arrows, landmarks, objects), ResetROI, and keys
\* without a case
DisplayKeys == {"i", " ", "h", "v", "B", "g", "p", "a", "L", "O", "W", "G", "other"}
Keys == ExitKeys \cup InterpolationKeys \cup ViewModeKeys \cup OriginKeys
          \cup FrameKeys \cup ResolutionKeys \cup DisplayKeys \cup {"r"}

\* the clamping of cases 'x' .. 'Z': every case compares with GetX()
ClampVoxel(v, dimX, dim) == LET lo == IF v < 0 THEN 0 ELSE v
                            IN IF lo >= dimX THEN dim - 1 ELSE lo

\* variant: the frame stops at the first and at the last frame
WrapFrame_Stop(t, frames) == LET lo == IF t < 0 THEN 0 ELSE t
                             IN IF lo >= frames THEN frames - 1 ELSE lo
\* the frame computed by cases '+' and '-'
WrapFrame(t, frames) == LET lo == IF t < 0 THEN frames - 1 ELSE t
                        IN IF lo >= frames THEN 0 ELSE lo

\* the new resolution (logarithm, half octaves) of cases '>', '<', '.', ','
ResolutionStep(key) == CASE key = ">" -> 2 [] key = "<" -> -2 [] key = "." -> 1 [] OTHER -> -1

\* the switch of RView::cb_keyboard, for the keys that return from it
KeyboardKey(s, key) ==
  LET X == GetX(s.targetImage)
      Y == GetY(s.targetImage)
      Z == GetZ(s.targetImage)
      x == s.origin[1]
      y == s.origin[2]
      z == s.origin[3]
  IN CASE key = "r" -> Reset(s)
       [] key = "l" -> SetSourceInterpolationMode(SetTargetInterpolationMode(s, "Linear"), "Linear")
       [] key = "n" -> SetSourceInterpolationMode(SetTargetInterpolationMode(s, "NN"), "NN")
       [] key = "c" -> SetSourceInterpolationMode(SetTargetInterpolationMode(s, "CSpline"), "CSpline")
       [] key = "b" -> SetSourceInterpolationMode(SetTargetInterpolationMode(s, "BSpline"), "BSpline")
       [] key = "S" -> SetSourceInterpolationMode(SetTargetInterpolationMode(s, "Sinc"), "Sinc")
       [] key = "t" -> SetViewMode(s, "View_A")
       [] key = "s" -> SetViewMode(s, "View_B")
       [] key = "m" -> SetViewMode(s, "View_Checkerboard")
       [] key = "d" -> SetViewMode(s, "View_Subtraction")
       [] key = "x" -> SetOrigin(s, ClampVoxel(x - 1, X, X), y, z)
       [] key = "X" -> SetOrigin(s, ClampVoxel(x + 1, X, X), y, z)
       [] key = "y" -> SetOrigin(s, x, ClampVoxel(y - 1, X, Y), z)
       [] key = "Y" -> SetOrigin(s, x, ClampVoxel(y + 1, X, Y), z)
       [] key = "z" -> SetOrigin(s, x, y, ClampVoxel(z - 1, X, Z))
       [] key = "Z" -> SetOrigin(s, x, y, ClampVoxel(z + 1, X, Z))
       [] key = "+" -> SetTargetFrame(s, WrapFrame(s.targetFrame + 1, GetT(s.targetImage)))
       [] key = "-" -> SetTargetFrame(s, WrapFrame(s.targetFrame - 1, GetT(s.targetImage)))
       [] key \in ResolutionKeys -> SetResolution(s, s.resolution + ResolutionStep(key))
       [] OTHER -> s

\* variant: the handler draws what the last Update left
cb_keyboard_DrawOnly(s, key) ==
  IF key \in ExitKeys THEN [s EXCEPT !.running = FALSE]
  ELSE Draw(Log(KeyboardKey(s, key), "Mutate", "", 0))
cb_keyboard(s, key) ==
  IF key \in ExitKeys THEN [s EXCEPT !.running = FALSE]
  ELSE Draw(Update(Log(KeyboardKey(s, key), "Mutate", "", 0)))


(***************************************************************************)
(* State and actions                                                        *)
(***************************************************************************)
\* rv: the RView object; op: the member function called last; events: the
\* number of calls so far, counted where a specification bounds it
VARIABLES rv, op, events
vars == <<rv, op, events>>

\* the object at the start of a call (the trace covers one call)
Begin == [rv EXCEPT !.trace = <<>>]
Do(name, s) == rv' = s /\ op' = name

Call_Update == rv.running /\ Do("Update", Update(Begin))
Call_Draw == rv.running /\ Do("Draw", Draw(Begin))
Call_DrawOffscreen == rv.running /\ Do("DrawOffscreen", DrawOffscreen(Begin))
Call_ReadTarget(img) == rv.running /\ Do("ReadTarget", ReadTarget(Begin, img))
Call_ReadSource(img) == rv.running /\ Do("ReadSource", ReadSource(Begin, img))
\* the call, with the files it is given and the raster it finds noted in the
\* trace
Call_ReadTargetFiles(files, cast) ==
  /\ rv.running
  /\ Do("ReadTargetFiles",
        ReadTargetFiles(Log(Log(Begin, "File", "", files), "Raster", "", rv.contourRaster),
                        files, cast))
Call_ReadSourceFiles(files, cast) ==
  rv.running /\ Do("ReadSourceFiles", ReadSourceFiles(Log(Begin, "File", "", files), files, cast))
Call_ReadSegmentation(img) == rv.running /\ Do("ReadSegmentation", ReadSegmentation(Begin, img))
Call_ReadTargetLandmarks(n) ==
  rv.running /\ Do("ReadTargetLandmarks", ReadTargetLandmarks(Begin, n))
Call_ReadSourceLandmarks(n) ==
  rv.running /\ Do("ReadSourceLandmarks", ReadSourceLandmarks(Begin, n))
Call_ReadTransformation(file) ==
  rv.running /\ Do("ReadTransformation", ReadTransformation(Log(Begin, "File", "", file), file))
Call_FitLandmarks == rv.running /\ Do("FitLandmarks", FitLandmarks(Begin))
Call_SetSourceTransformInvert(value) ==
  rv.running /\ Do("SetSourceTransformInvert", SetSourceTransformInvert(Begin, value))
Call_SetSourceTransformApply(value) ==
  rv.running /\ Do("SetSourceTransformApply", SetSourceTransformApply(Begin, value))
Call_Configure(config) == rv.running /\ Do("Configure", Configure(Begin, config))
Call_Resize(w, h) == rv.running /\ Do("Resize", Resize(Begin, w, h))
\* the first point of a contour is taken inside a viewport, a further point
\* while the viewer of the contour is part of the layout
ContourCall(i, j) ==
  /\ rv.running
  /\ rv.contourSize = 0 => \E k \in 1 .. rv.NoOfViewers : InViewport(rv, k, i, j)
  /\ rv.contourSize > 0 => rv.contourViewer \in 1 .. rv.NoOfViewers
  /\ rv.contourSize < MaxContour \/ PointerRejected(rv, i, j)
\* the call, with the pointer it is given and the raster it finds noted in the
\* trace
Pointed(i, j) == Log(Log(Begin, "Pointer", "", <<i, j>>), "Raster", "", rv.contourRaster)
Call_AddContour(i, j) == ContourCall(i, j) /\ Do("AddContour", AddContour(Pointed(i, j), i, j))
Call_FillArea(i, j) == ContourCall(i, j) /\ Do("FillArea", FillArea(Pointed(i, j), i, j))
Call_RegionGrowContour(i, j) ==
  ContourCall(i, j) /\ Do("RegionGrowContour", RegionGrowContour(Pointed(i, j), i, j))
\* the index the three operations use on _viewer and _targetImageOutput at
\* lines 749-759, 807-816, 847-856: that of the viewer hit by a first point,
\* else _contourViewer as it is (0 stands for -1)
ContourIndex(s, i, j) == IF s.contourSize = 0 THEN HitViewer(s, i, j) ELSE s.contourViewer
Indexed(i, j) == Log(Pointed(i, j), "Index", "", ContourIndex(rv, i, j))
\* the calls with any pointer of the window: with an index outside the array
\* the behaviour is undefined; of its outcomes the model has the end of the
\* process and the return without effect
ContourCallAt(i, j) ==
  /\ rv.running
  /\ IF ContourIndex(rv, i, j) \notin 1 .. rv.NoOfViewers THEN TRUE
     ELSE rv.contourSize < MaxContour \/ PointerRejected(rv, i, j)
OutOfRange(i, j, ends) == [Indexed(i, j) EXCEPT !.running = ~ends]
Call_AddContourAt(i, j, ends) ==
  /\ ContourCallAt(i, j)
  /\ Do("AddContour", IF ContourIndex(rv, i, j) \in 1 .. rv.NoOfViewers
                       THEN AddContour(Indexed(i, j), i, j)
                       ELSE OutOfRange(i, j, ends))
Call_FillAreaAt(i, j, ends) ==
  /\ ContourCallAt(i, j)
  /\ Do("FillArea", IF ContourIndex(rv, i, j) \in 1 .. rv.NoOfViewers
                     THEN FillArea(Indexed(i, j), i, j)
                     ELSE OutOfRange(i, j, ends))
Call_RegionGrowContourAt(i, j, ends) ==
  /\ ContourCallAt(i, j)
  /\ Do("RegionGrowContour", IF ContourIndex(rv, i, j) \in 1 .. rv.NoOfViewers
                              THEN RegionGrowContour(Indexed(i, j), i, j)
                              ELSE OutOfRange(i, j, ends))
\* the pointer is used while the reslice origin lies inside the target
Call_SetOriginPointer(i, j) ==
  /\ rv.running
  /\ InsideVolume(rv.targetImage, rv.origin)
  /\ Do("SetOrigin", SetOriginPointer(Log(Begin, "Pointer", "", <<i, j>>), i, j))
Call_MouseWheel(i, j, wheel) ==
  /\ rv.running
  /\ InsideVolume(rv.targetImage, rv.origin)
  /\ Do("MouseWheel", MouseWheel(Log(Begin, "Pointer", "", <<i, j>>), i, j, wheel))
\* a key is pressed over a target; the key, the frame and the origin at the
\* time are noted
Call_KeyPressed(key) ==
  /\ rv.running
  /\ rv.targetImage # 0
  /\ Do("cb_keyboard",
        cb_keyboard(Log(Begin, "Key", key, [frame |-> rv.targetFrame, origin |-> rv.origin]),
                    key))
Call_Write == rv.running /\ Do("Write", Write(Begin))
Call_Read == rv.running /\ rv.configFile.exists /\ Do("Read", Read(Begin, rv.configFile))
\* DisplayTargetContourOn(), DisplayTargetContourOff() and the like
SetDisplayFlag(s, f, value) == [s EXCEPT !.display[f] = value]
Call_SetDisplayFlag(f, value) ==
  rv.running /\ Do("SetDisplayFlag", SetDisplayFlag(Begin, f, value))
\* SetColorModeToRed() .. SetColorModeToRainbow() on one of the three tables
SetTableColorMode(s, name, mode) == [s EXCEPT ![name].mode = mode]
Call_SetTableColorMode(name, mode) ==
  rv.running /\ Do("SetColorMode", SetTableColorMode(Begin, name, mode))
\* Read() of a file that Write() has not written
Call_ReadFile(lines) ==
  rv.running /\ Do("Read", Read([Begin EXCEPT !.configFile = ConfigFile(lines, NoFile.wrote)],
                                ConfigFile(lines, NoFile.wrote)))
Call_SetTargetInterpolationMode(mode) ==
  rv.running /\ Do("SetTargetInterpolationMode", SetTargetInterpolationMode(Begin, mode))
Call_SetSourceInterpolationMode(mode) ==
  rv.running /\ Do("SetSourceInterpolationMode", SetSourceInterpolationMode(Begin, mode))
Call_SetTargetFrame(frame) ==
  rv.running /\ Do("SetTargetFrame", SetTargetFrame(Begin, frame))
Call_SetSourceFrame(frame) ==
  rv.running /\ Do("SetSourceFrame", SetSourceFrame(Begin, frame))
Call_SetViewMode(mode) == rv.running /\ Do("SetViewMode", SetViewMode(Begin, mode))
Call_Reset == rv.running /\ Do("Reset", Reset(Begin))
Call_ResetROI == rv.running /\ Do("ResetROI", ResetROI(Begin))
Call_UpdateROI1(i, j) ==
  rv.running /\ Do("UpdateROI1", UpdateROI1(Log(Begin, "Pointer", "", <<i, j>>), i, j))
Call_UpdateROI2(i, j) ==
  rv.running /\ Do("UpdateROI2", UpdateROI2(Log(Begin, "Pointer", "", <<i, j>>), i, j))
Call_UndoContour == rv.running /\ Do("UndoContour", UndoContour(Begin))
\* the labels a contour is filled with
Labels == 1 .. MaxSample
Call_FillContour(fill) ==
  /\ rv.running
  /\ \E build \in Builds :
       Do("FillContour", FillContour(Log(Begin, "Label", "", fill), fill, build))
Call_ClearContour == rv.running /\ Do("ClearContour", ClearContour(Begin))
\* the caller passes the steps of the display range as the deltas
Call_cb_special(key) ==
  rv.running /\ Do("cb_special", cb_special(Begin, key, MaxSample, MaxSample))
Call_cb_keyboard(key) ==
  /\ rv.running
  /\ key \in ResolutionKeys =>
       rv.resolution + ResolutionStep(key) \in -MaxZoom .. MaxZoom
  /\ Do("cb_keyboard", cb_keyboard(Begin, key))

(***************************************************************************)
(* Spec: volumes, layout, window and contour change, Update() follows       *)
(***************************************************************************)
Init ==
  /\ rv = RView(2, 2)
  /\ op = "RView"
  /\ events = 0

Next ==
  /\ UNCHANGED events
  /\ \/ Call_Update
     \/ \E img \in Volumes : Call_ReadTarget(img)
     \/ \E img \in Volumes : Call_ReadSource(img)
     \/ \E img \in Volumes : Call_ReadSegmentation(img)
     \/ \E config \in Layouts : Call_Configure(config)
     \/ \E i \in 0 .. rv.screenX - 1, j \in 0 .. rv.screenY - 1 : Call_AddContour(i, j)
     \/ Call_ClearContour

Spec == Init /\ [][Next]_vars


(***************************************************************************)
(* SpecContour: drawing, filling, growing, undoing and committing a contour *)
(***************************************************************************)
\* a window of 4 x 2 pixels with a layout, a target and (seg # 0) a
\* segmentation, after the first Update
InitContour ==
  /\ \E layout \in Layouts, target \in Volumes, seg \in 0 .. NumVolumes :
       LET s == ReadTarget(Configure(RView(4, 2), layout), target)
       IN rv = Update(IF seg = 0 THEN s ELSE ReadSegmentation(s, seg))
  /\ op = "RView"
  /\ events = 0

\* the window point of a pointer event
Pointers == (0 .. rv.screenX - 1) \X (0 .. rv.screenY - 1)

NextContour ==
  /\ UNCHANGED events
  /\ \/ Call_Update
     \/ \E p \in Pointers : Call_AddContour(p[1], p[2])
     \/ \E p \in Pointers : Call_FillArea(p[1], p[2])
     \/ \E p \in Pointers : Call_RegionGrowContour(p[1], p[2])
     \/ Call_UndoContour
     \/ Call_ClearContour

SpecContour == InitContour /\ [][NextContour]_vars

(***************************************************************************)
(* SpecFill: contours are drawn and committed to the segmentation; events   *)
(* counts the calls of FillContour                                          *)
(***************************************************************************)
NextFill ==
  \/ /\ UNCHANGED events
     /\ \/ Call_Update
        \/ \E p \in Pointers : Call_AddContour(p[1], p[2])
        \/ \E p \in Pointers : Call_FillArea(p[1], p[2])
  \/ /\ events < MaxFills
     /\ events' = events + 1
     /\ \E fill \in Labels : Call_FillContour(fill)

SpecFill == InitContour /\ [][NextFill]_vars

(***************************************************************************)
(* SpecROI: the corners of the region of interest are dragged in a window   *)
(* with a layout, a target and a reslice origin                             *)
(***************************************************************************)
InitROI ==
  /\ \E size \in ScreenSizes, layout \in Layouts, target \in Volumes :
       \E origin \in VoxelsOf(target) :
         rv = SetOrigin(ReadTarget(Configure(RView(size[1], size[2]), layout), target),
                        origin[1], origin[2], origin[3])
  /\ op = "RView"
  /\ events = 0

NextROI ==
  /\ UNCHANGED events
  /\ \/ \E img \in Volumes : Call_ReadTarget(img)
     \/ Call_ResetROI
     \/ \E p \in Pointers : Call_UpdateROI1(p[1], p[2])
     \/ \E p \in Pointers : Call_UpdateROI2(p[1], p[2])

SpecROI == InitROI /\ [][NextROI]_vars

\* segmentation files: their grid can be larger than that of any target
SegmentationFiles == 1 .. NumVolumes + 1

NextROISegmentation ==
  \/ NextROI
  \/ UNCHANGED events /\ \E img \in SegmentationFiles : Call_ReadSegmentation(img)

SpecROISegmentation == InitROI /\ [][NextROISegmentation]_vars

(***************************************************************************)
(* SpecOrientation: Reset() for the targets whose axes run along the axes   *)
(* of the patient, the three display conventions and the flips              *)
(***************************************************************************)
UnitVector(i) == [a \in 1 .. 3 |-> IF a = i THEN 1 ELSE 0]

\* the axes of an image: the unit vectors in any order, each with any sign
AlignedAxes ==
  {[p \in 1 .. 3 |-> Scale(sign[p], UnitVector(order[p]))] :
     order \in {f \in [1 .. 3 -> 1 .. 3] : \A a, b \in 1 .. 3 : f[a] = f[b] => a = b},
     sign \in [1 .. 3 -> {-1, 1}]}

\* a target with the given axes is loaded, then the convention and the flips
\* are chosen
InitOrientation ==
  /\ \E axes \in AlignedAxes, mode \in DisplayModes, target \in Volumes,
        flips \in [1 .. 3 -> BOOLEAN] :
       rv = [ReadTarget(RView(2, 2), target)
               EXCEPT !.targetOrientation = ImageOrientation(axes),
                      !.DisplayMode = mode,
                      !.FlipX = flips[1], !.FlipY = flips[2], !.FlipZ = flips[3]]
  /\ op = "RView"
  /\ events = 0

NextOrientation == Call_Reset /\ UNCHANGED events

SpecOrientation == InitOrientation /\ [][NextOrientation]_vars

(***************************************************************************)
(* SpecReset: Reset() is called again and again for a target whose          *)
(* orientation codes are any triple, resolvable or not                      *)
(***************************************************************************)
OrientationTriples == [1 .. 3 -> OrientationCodes \cup {"Unknown"}]

InitReset ==
  /\ \E codes \in OrientationTriples, mode \in DisplayModes, target \in Volumes,
        flips \in [1 .. 3 -> BOOLEAN] :
       rv = [ReadTarget(RView(2, 2), target)
               EXCEPT !.targetOrientation =
                         [axes |-> [p \in 1 .. 3 |-> UnitVector(p)], codes |-> codes],
                      !.DisplayMode = mode,
                      !.FlipX = flips[1], !.FlipY = flips[2], !.FlipZ = flips[3]]
  /\ op = "RView"
  /\ events = 0

NextReset == Call_Reset /\ UNCHANGED events

SpecReset == InitReset /\ [][NextReset]_vars

(***************************************************************************)
(* SpecLayout: Configure is called with any list of up to MaxViewers        *)
(* viewers, each of any plane, and the viewer is updated                    *)
(***************************************************************************)
ViewerLists ==
  UNION {[1 .. n -> {Viewport(0, 0, 2, 2, mode) : mode \in ViewerModes}] : n \in 1 .. MaxViewers}

NextLayout ==
  /\ UNCHANGED events
  /\ \/ \E config \in ViewerLists : Call_Configure(config)
     \/ Call_Update

SpecLayout == Init /\ [][NextLayout]_vars

(***************************************************************************)
(* SpecConfig: the configuration is written, the view mode is changed, the  *)
(* configuration is read back; the viewer starts in any layout and view     *)
(* mode                                                                     *)
(***************************************************************************)
InitConfig ==
  /\ \E configMode \in ConfigModes, viewMode \in ViewModes :
       rv = Configure([RView(2, 2) EXCEPT !.configMode = configMode,
                                          !.viewMode = viewMode],
                      Preset(configMode))
  /\ op = "RView"
  /\ events = 0

NextConfig ==
  /\ UNCHANGED events
  /\ \/ Call_Write
     \/ Call_Read
     \/ \E mode \in ViewModes : Call_SetViewMode(mode)

SpecConfig == InitConfig /\ [][NextConfig]_vars

(***************************************************************************)
(* SpecFlags: the display flags start in any combination, with or without   *)
(* VTK; the configuration is written, flags are changed, the configuration  *)
(* is read back                                                             *)
(***************************************************************************)
InitFlags ==
  /\ \E display \in [DisplayFlags -> BOOLEAN], vtk \in BOOLEAN :
       rv = [RView(2, 2) EXCEPT !.display = display, !.vtk = vtk]
  /\ op = "RView"
  /\ events = 0

NextFlags ==
  \/ Call_Write /\ UNCHANGED events
  \/ Call_Read /\ UNCHANGED events
  \/ /\ rv.configFile.exists
     /\ events < MaxFlagChanges
     /\ events' = events + 1
     /\ \E f \in DisplayFlags : Call_SetDisplayFlag(f, ~rv.display[f])

SpecFlags == InitFlags /\ [][NextFlags]_vars

(***************************************************************************)
(* SpecTables: the three lookup tables start with display ranges and colour *)
(* modes that differ from table to table; the configuration is written, a   *)
(* colour mode is changed, the configuration is read back                   *)
(***************************************************************************)
DisplayRanges == {r \in (0 .. MaxIntensity) \X (0 .. MaxIntensity) : r[1] <= r[2]}
ModeOrder == << "Red", "Green", "Blue", "Luminance", "Rainbow" >>
WithDisplay(lut, lo, hi, mode) ==
  [SetMaxDisplayIntensity(SetMinDisplayIntensity(lut, lo), hi) EXCEPT !.mode = mode]

InitTables ==
  /\ \E t \in DisplayRanges, s \in {r \in DisplayRanges : r[2] = MaxIntensity},
        m \in 1 .. Len(ModeOrder) :
       rv = [RView(2, 2) EXCEPT
               !.targetLookupTable = WithDisplay(@, t[1], t[2], ModeOrder[m]),
               !.sourceLookupTable =
                  WithDisplay(@, s[1], s[2], ModeOrder[(m % Len(ModeOrder)) + 1]),
               !.subtractionLookupTable =
                  WithDisplay(@, -t[2], s[1], ModeOrder[((m + 1) % Len(ModeOrder)) + 1])]
  /\ op = "RView"
  /\ events = 0

NextTables ==
  \/ Call_Write /\ UNCHANGED events
  \/ Call_Read /\ UNCHANGED events
  \/ /\ rv.configFile.exists
     /\ events < MaxFlagChanges
     /\ events' = events + 1
     /\ \E name \in TableNames, mode \in ColorModes : Call_SetTableColorMode(name, mode)

SpecTables == InitTables /\ [][NextTables]_vars

(***************************************************************************)
(* SpecLines: the interpolation modes are set, the configuration is         *)
(* written and read back, and files of a few lines are read: lines of the   *)
(* interpolation modes with the five tokens and with another token, a line  *)
(* of another known key, a line of an unknown key, a line without '='       *)
(***************************************************************************)
InterpolationTokens ==
  {"mirtk::Interpolation_NN", "mirtk::Interpolation_Linear", "Interpolation_C1Spline",
   "mirtk::Interpolation_BSpline", "mirtk::Interpolation_Sinc"}
ConfigLines ==
  {Line(key, token) : key \in {"targetInterpolationMode", "sourceInterpolationMode"},
                      token \in InterpolationTokens \cup {"mirtk::Interpolation_Cubic"}}
  \cup {Number("viewMix", 1), Number("zoom", 1), Malformed("configMode")}
RECURSIVE FilesOf(_)
FilesOf(n) ==
  IF n = 0 THEN {<<>>}
  ELSE LET shorter == FilesOf(n - 1)
       IN shorter \cup {Append(f, l) : f \in {g \in shorter : Len(g) = n - 1},
                                        l \in ConfigLines}
ConfigFiles == FilesOf(MaxLines) \ {<<>>}

InitLines ==
  /\ rv = RView(2, 2)
  /\ op = "RView"
  /\ events = 0

NextLines ==
  /\ UNCHANGED events
  /\ \/ \E mode \in InterpolationModes : Call_SetTargetInterpolationMode(mode)
     \/ \E mode \in InterpolationModes : Call_SetSourceInterpolationMode(mode)
     \/ ~rv.configFile.exists /\ Call_Write
     \/ Call_Read
     \/ ~rv.configFile.exists /\ \E lines \in ConfigFiles : Call_ReadFile(lines)

SpecLines == InitLines /\ [][NextLines]_vars

(***************************************************************************)
(* SpecApply: the source transformation is switched on and off, read from   *)
(* a file, the layout is changed, the window is resized and reset           *)
(***************************************************************************)
NextApply ==
  /\ UNCHANGED events
  /\ \/ \E value \in BOOLEAN : Call_SetSourceTransformApply(value)
     \/ \E config \in Layouts : Call_Configure(config)
     \/ \E file \in TransformationFiles : Call_ReadTransformation(file)
     \/ \E size \in ScreenSizes : Call_Resize(size[1], size[2])
     \/ Call_Reset

SpecApply == Init /\ [][NextApply]_vars

(***************************************************************************)
(* SpecRaster: the operations that size the rasters and the colour buffers: *)
(* the layout and the window change, files with a screen height are read,   *)
(* volumes and transformations are read, the viewer is reset and updated    *)
(***************************************************************************)
ScreenFiles == {<< Number("screenY", 4) >>, << Number("screenX", 4), Number("screenY", 2) >>}

NextRaster ==
  /\ UNCHANGED events
  /\ \/ Call_Update
     \/ \E config \in Layouts : Call_Configure(config)
     \/ \E size \in ScreenSizes : Call_Resize(size[1], size[2])
     \/ Call_Reset
     \/ \E lines \in ScreenFiles : Call_ReadFile(lines)
     \/ \E img \in Volumes : Call_ReadTarget(img)
     \/ \E img \in Volumes : Call_ReadSource(img)
     \/ \E file \in TransformationFiles : Call_ReadTransformation(file)

SpecRaster == Init /\ [][NextRaster]_vars

(***************************************************************************)
(* SpecContourViewer: contours are started and continued with any pointer   *)
(* of the window, and the layout is changed while a contour is open         *)
(***************************************************************************)
InitContourViewer ==
  /\ \E layout \in Layouts, target \in Volumes :
       rv = Update(ReadTarget(Configure(RView(2, 2), layout), target))
  /\ op = "RView"
  /\ events = 0

NextContourViewer ==
  /\ UNCHANGED events
  /\ \/ Call_Update
     \/ \E config \in Layouts : Call_Configure(config)
     \/ \E p \in Pointers, ends \in BOOLEAN : Call_AddContourAt(p[1], p[2], ends)
     \/ \E p \in Pointers, ends \in BOOLEAN : Call_FillAreaAt(p[1], p[2], ends)
     \/ \E p \in Pointers, ends \in BOOLEAN : Call_RegionGrowContourAt(p[1], p[2], ends)
     \/ Call_ClearContour

SpecContourViewer == InitContourViewer /\ [][NextContourViewer]_vars

(***************************************************************************)
(* SpecPointer: the reslice origin is set with the pointer and moved with   *)
(* the wheel, with the pointer anywhere in the window                       *)
(***************************************************************************)
WheelSteps == {-1, 1}

NextPointer ==
  /\ UNCHANGED events
  /\ \/ \E p \in Pointers : Call_SetOriginPointer(p[1], p[2])
     \/ \E p \in Pointers, wheel \in WheelSteps : Call_MouseWheel(p[1], p[2], wheel)

SpecPointer == InitROI /\ [][NextPointer]_vars

(***************************************************************************)
(* SpecScreen: the configuration is written, the window is resized, the     *)
(* configuration is read back                                               *)
(***************************************************************************)
WindowSizes == ScreenSizes \cup {<<2, 4>>}

InitScreen ==
  /\ \E size \in WindowSizes, layout \in Layouts :
       rv = Configure(RView(size[1], size[2]), layout)
  /\ op = "RView"
  /\ events = 0

NextScreen ==
  /\ UNCHANGED events
  /\ \/ Call_Write
     \/ Call_Read
     \/ \E size \in WindowSizes : Call_Resize(size[1], size[2])

SpecScreen == InitScreen /\ [][NextScreen]_vars

(***************************************************************************)
(* SpecSequence: sequences of image files are read as target and as source  *)
(***************************************************************************)
VoxelTypes == SupportedTypes \cup {"other"}
FileTimes == {<<0, 1>>, <<1, 2>>}
FileSizes == {1, 2}
FileFrames == {1, 2}
ImageFiles ==
  UNION {{ImageFile(type, size, time, voxels) :
            size \in FileSizes, time \in FileTimes,
            voxels \in UNION {[1 .. t -> VoxelRange(type)] : t \in FileFrames}} :
         type \in VoxelTypes}
FileLists == UNION {[1 .. n -> ImageFiles] : n \in 1 .. MaxFiles}

\* the viewer as constructed, or with a target and a source read before
FirstFile == ImageFile("short", 1, <<0, 1>>, << -1 >>)
InitSequence ==
  /\ rv \in {RView(2, 2),
             ReadSourceFiles(ReadTargetFiles(RView(2, 2), <<FirstFile>>, 0),
                             <<FirstFile, FirstFile>>, 0)}
  /\ op = "RView"
  /\ events = 0

\* one sequence is read
NextSequence ==
  /\ events = 0
  /\ events' = 1
  /\ \E files \in FileLists :
       \E cast \in VoxelRange(files[1].type) :
          \/ Call_ReadTargetFiles(files, cast)
          \/ Call_ReadSourceFiles(files, cast)

SpecSequence == InitSequence /\ [][NextSequence]_vars

(***************************************************************************)
(* SpecTarget: a contour is drawn, the region of interest is set, the       *)
(* viewer is updated, and a target is read from one file or from several    *)
(***************************************************************************)
TargetFiles ==
  {<< FirstFile >>, << FirstFile, FirstFile >>,
   << FirstFile, ImageFile("short", 2, <<0, 1>>, << 0 >>) >>}

InitTarget ==
  /\ \E layout \in Layouts, target \in Volumes :
       rv = Update(ReadTarget(Configure(RView(2, 2), layout), target))
  /\ op = "RView"
  /\ events = 0

NextTarget ==
  /\ UNCHANGED events
  /\ \/ Call_Update
     \/ \E p \in Pointers : Call_AddContour(p[1], p[2])
     \/ \E p \in Pointers : Call_UpdateROI1(p[1], p[2])
     \/ \E p \in Pointers : Call_UpdateROI2(p[1], p[2])
     \/ \E img \in Volumes : Call_ReadTarget(img)
     \/ \E files \in TargetFiles : Call_ReadTargetFiles(files, 0)

SpecTarget == InitTarget /\ [][NextTarget]_vars

(***************************************************************************)
(* SpecKeys: the keys that move the reslice origin and the keys that change *)
(* the frame are pressed over targets of one frame and of two frames        *)
(***************************************************************************)
KeyFiles == {<< FirstFile >>, << FirstFile, FirstFile >>}

InitKeys ==
  /\ \E layout \in Layouts, files \in KeyFiles :
       rv = Update(ReadTargetFiles(Configure(RView(2, 2), layout), files, 0))
  /\ op = "RView"
  /\ events = 0

NextKeys ==
  /\ UNCHANGED events
  /\ \/ \E key \in OriginKeys \cup FrameKeys : Call_KeyPressed(key)
     \/ \E files \in KeyFiles : Call_ReadTargetFiles(files, 0)

SpecKeys == InitKeys /\ [][NextKeys]_vars

(***************************************************************************)
(* SpecCache: a target and a source are loaded; free-form deformations,     *)
(* which require the caching of displacements, are read; the transformation *)
(* is inverted and fitted, the frames are set, the viewer is updated        *)
(***************************************************************************)
DeformationFiles ==
  [class : {"FreeForm"}, rigid : {0, 1}, affine : {0}]
    \cup {[class |-> "Affine", rigid |-> 0, affine |-> 0]}

InitCache ==
  /\ \E target \in Volumes, source \in Volumes :
       rv = ReadSource(ReadTarget(RView(2, 2), target), source)
  /\ op = "RView"
  /\ events = 0

NextCache ==
  /\ UNCHANGED events
  /\ \/ Call_Update
     \/ \E file \in DeformationFiles : Call_ReadTransformation(file)
     \/ Call_FitLandmarks
     \/ \E value \in BOOLEAN : Call_SetSourceTransformInvert(value)
     \/ \E frame \in 0 .. GetT(rv.targetImage) - 1 : Call_SetTargetFrame(frame)
     \/ \E frame \in 0 .. GetT(rv.sourceImage) - 1 : Call_SetSourceFrame(frame)

SpecCache == InitCache /\ [][NextCache]_vars

(***************************************************************************)
(* SpecTransform: the operations on the source transformation               *)
(***************************************************************************)
NextTransform ==
  /\ UNCHANGED events
  /\ \/ Call_Update
     \/ \E img \in Volumes : Call_ReadSource(img)
     \/ \E file \in TransformationFiles : Call_ReadTransformation(file)
     \/ \E n \in 0 .. MaxLandmarks : Call_ReadTargetLandmarks(n)
     \/ \E n \in 0 .. MaxLandmarks : Call_ReadSourceLandmarks(n)
     \/ Call_FitLandmarks
     \/ \E value \in BOOLEAN : Call_SetSourceTransformInvert(value)
     \/ \E value \in BOOLEAN : Call_SetSourceTransformApply(value)

SpecTransform == Init /\ [][NextTransform]_vars

(***************************************************************************)
(* SpecHandlers: the keyboard handlers and the offscreen capture            *)
(***************************************************************************)
NextHandlers ==
  /\ events < MaxEvents
  /\ events' = events + 1
  /\ \/ \E img \in Volumes : Call_ReadTarget(img)
     \/ \E img \in Volumes : Call_ReadSource(img)
     \/ \E key \in Keys : Call_cb_keyboard(key)
     \/ \E key \in SpecialKeys : Call_cb_special(key)
     \/ Call_DrawOffscreen

SpecHandlers == Init /\ [][NextHandlers]_vars

(***************************************************************************)
(* SpecView: the compositor, over the view modes, mixes, lookup tables,     *)
(* layouts and rasters it can be given                                      *)
(***************************************************************************)
\* colour mode and alpha (in quarters) of the (target, source) lookup tables
LookupTableSettings ==
  { << <<"Luminance", Quarter>>,   <<"Rainbow", 0>> >>,
    << <<"Rainbow", 0>>,           <<"Luminance", Quarter>> >>,
    << <<"Red", Quarter \div 2>>,  <<"Green", 1>> >>,
    << <<"Blue", 1>>,              <<"Red", Quarter \div 2>> >> }

\* the transformation files of SpecView and SpecPixel: the identity and a
\* rigid motion
MotionFiles == {f \in TransformationFiles : f.class = "Affine" /\ f.affine = 0}

\* the viewer after loading a target, a source, a transformation and
\* (seg # 0) a segmentation into a window of 4 x 2 pixels with the given layout
Loaded(layout, target, source, seg, file, luts) ==
  LET s1 == ReadTarget(Configure(RView(4, 2), layout), target)
      s2 == ReadTransformation(ReadSource(s1, source), file)
      s3 == IF seg = 0 THEN s2 ELSE ReadSegmentation(s2, seg)
  IN [s3 EXCEPT !.targetLookupTable = SetColorMode(@, luts[1]),
                !.sourceLookupTable = SetColorMode(@, luts[2])]

\* rv is the viewer prepared for compositing: volumes, transformation and
\* lookup tables loaded, view mode and mix chosen, labels and contour on or off
Prepared(settings, files, mixes) ==
  \E layout \in Layouts, target \in Volumes, source \in Volumes, seg \in 0 .. NumVolumes,
     file \in files, luts \in settings,
     mode \in ViewModes, mix \in mixes, labels \in BOOLEAN, contour \in BOOLEAN :
    LET s1 == SetViewMix(SetViewMode(Loaded(layout, target, source, seg, file, luts),
                                     mode), mix)
        s2 == SetDisplaySegmentationLabels(s1, labels)
    IN rv = IF contour THEN AddContour(s2, 1, 1) ELSE s2

InitView ==
  /\ Prepared(LookupTableSettings, MotionFiles, 0 .. Quarter)
  /\ op = "RView"
  /\ events = 0

NextView == Call_Update /\ UNCHANGED events

SpecView == InitView /\ [][NextView]_vars

(***************************************************************************)
(* SpecPixel: the compositor over one setting of the lookup tables, for the *)
(* properties that compare an Update with the Update of changed rasters     *)
(***************************************************************************)
InitPixel ==
  /\ Prepared({ << <<"Red", Quarter \div 2>>, <<"Green", 1>> >> },
              {f \in MotionFiles : f.rigid = 1}, {Quarter \div 2, Quarter})
  /\ op = "RView"
  /\ events = 0

NextPixel == Call_Update /\ UNCHANGED events

SpecPixel == InitPixel /\ [][NextPixel]_vars

(***************************************************************************)
(* Properties                                                               *)
(***************************************************************************)
Viewers == 1 .. rv.NoOfViewers
Pixels(k) == 1 .. NumberOfVoxels(rv, k)

\* the four dirty flags of s, in the order of Roles
DirtyFlags(s) ==
  <<s.targetUpdate, s.sourceUpdate, s.segmentationUpdate, s.selectionUpdate>>
Clean == <<FALSE, FALSE, FALSE, FALSE>>

\* positions of the events ev in the trace of the last call
Positions(ev) == {p \in DOMAIN rv.trace : rv.trace[p].ev = ev}

\* the input of role number i holds data
InputNonEmpty(i) ==
  CASE i = 1 -> rv.targetImage # 0
    [] i = 2 -> rv.sourceImage # 0
    [] i = 3 -> rv.segmentationImage # 0
    [] i = 4 -> ~rv.rasterIsEmpty

\* C1: Immediately after every call of Update() the four dirty flags
\* (target, source, segmentation, selection) are all false, whatever they were
\* on entry and whether or not a volume or the contour raster is empty.
C1_FlagsClearAfterUpdate == op = "Update" => DirtyFlags(rv) = Clean

\* Update() was entered with all four flags set, with an empty segmentation
\* and an empty contour raster next to a loaded target
C1_Witness ==
  /\ op = "Update"
  /\ rv.trace[1].dirty = <<TRUE, TRUE, TRUE, TRUE>>
  /\ rv.targetImage # 0
  /\ rv.segmentationImage = 0
  /\ rv.rasterIsEmpty

\* C2: Within one Update(), the filter of every role that is dirty on entry
\* and has a non-empty input runs exactly once for every viewport, the filter
\* of any other role does not run, and all filters have run before the first
\* viewport is composited.
C2_ResampleThenComposite ==
  op = "Update" =>
    /\ \A i \in 1 .. 4, l \in Viewers :
         Cardinality({p \in Positions("Run") :
                        rv.trace[p].role = Roles[i] /\ rv.trace[p].viewer = l})
           = IF rv.trace[1].dirty[i] /\ InputNonEmpty(i) THEN 1 ELSE 0
    /\ \A p \in Positions("Run"), q \in Positions("Composite") : p < q
    /\ \A k \in Viewers :
         Cardinality({q \in Positions("Composite") : rv.trace[q].viewer = k}) = 1

\* an Update() of several viewports that resampled one role and left alone
\* another one whose input is loaded but whose flag was clear
C2_Witness ==
  /\ op = "Update"
  /\ rv.NoOfViewers > 1
  /\ Positions("Run") # {}
  /\ \E i \in 1 .. 4 : ~rv.trace[1].dirty[i] /\ InputNonEmpty(i)
  /\ \E i \in 1 .. 4 : rv.trace[1].dirty[i] /\ ~InputNonEmpty(i)

\* C3: In cb_keyboard, cb_special and DrawOffscreen every Draw() starts with
\* the four dirty flags false and follows an Update() of the same call, with
\* no mutation of the state between that Update() and the Draw(); unless the
\* key ends the program, the handler does draw.
C3_UpdateThenDraw ==
  op \in {"cb_keyboard", "cb_special", "DrawOffscreen"} =>
    /\ rv.running => Positions("Draw") # {}
    /\ \A d \in Positions("Draw") :
         /\ rv.trace[d].dirty = Clean
         /\ \E u \in Positions("Update") :
              /\ u < d
              /\ \A m \in u + 1 .. d - 1 : rv.trace[m].ev \in {"Run", "Composite"}
              /\ \A m \in Positions("Mutate") \cup Positions("Resize") : m < u

\* a key whose mutation set dirty flags, followed by an Update() that ran
\* filters and by the Draw()
C3_Witness ==
  /\ op = "cb_keyboard"
  /\ Positions("Draw") # {}
  /\ Positions("Run") # {}
  /\ \E u \in Positions("Update") : rv.trace[u].dirty # Clean

\* C4: Each of ReadTransformation, FitLandmarks (when it changes the source
\* transformation), SetSourceTransformInvert and SetSourceTransformApply
\* returns with the source dirty flag set.
C4_SourceDirtyAfterTransformChange ==
  [][ ( /\ op' \in {"ReadTransformation", "FitLandmarks",
                    "SetSourceTransformInvert", "SetSourceTransformApply"}
        /\ op' = "FitLandmarks" => rv'.sourceTransform # rv.sourceTransform )
      => rv'.sourceUpdate ]_vars

\* pixel n of viewer k is touched by no overlay
Plain(k, n) ==
  /\ ~( /\ rv.DisplaySegmentationLabels
        /\ rv.segmentationImageOutput[k][n] >= 0
        /\ SegmentEntry(rv.segmentationImageOutput[k][n]).visible )
  /\ ~(rv.contourSize > 0 /\ rv.selectionImageOutput[k][n] > 0)

\* colour and alpha the lookup tables give the samples of pixel n of viewer k
TargetColor(k, n) == At(rv.targetLookupTable, rv.targetImageOutput[k][n])
SourceColor(k, n) == At(rv.sourceLookupTable, rv.sourceImageOutput[k][n])

\* the colour of the subtraction of the samples of pixel n of viewer k, as
\* target minus source or (exchanged) source minus target
SubtractionOf(k, n, exchanged) ==
  LET t == rv.targetImageOutput[k][n]
      s == rv.sourceImageOutput[k][n]
  IN IF t >= 0 /\ s >= 0
     THEN AsColor(At(rv.subtractionLookupTable, IF exchanged THEN s - t ELSE t - s))
     ELSE Color

\* C5 as stated: In Subtraction mode, in every viewport (source viewers
\* included), a pixel no overlay touches shows the subtraction table's colour
\* of (target sample - source sample) if both samples are >= 0, the default
\* colour otherwise.
C5_SubtractionTargetMinusSource ==
  (op = "Update" /\ rv.viewMode = "View_Subtraction") =>
    \A k \in Viewers : \A n \in Pixels(k) :
      Plain(k, n) => rv.drawable[k][n] = SubtractionOf(k, n, FALSE)

\* C5 amended: In Subtraction mode a pixel no overlay touches shows the default
\* colour if the target or the source sample is negative; otherwise the
\* subtraction table's colour of (target - source) in a target viewer and of
\* (source - target) in a source viewer.
C5_SubtractionPrimaryMinusSecondary ==
  (op = "Update" /\ rv.viewMode = "View_Subtraction") =>
    \A k \in Viewers : \A n \in Pixels(k) :
      Plain(k, n) => rv.drawable[k][n] = SubtractionOf(k, n, rv.isSourceViewer[k])

\* a source viewer in Subtraction mode with a pixel whose two samples differ
\* and are not negative, and a pixel with a negative sample
C5_Witness ==
  /\ op = "Update"
  /\ rv.viewMode = "View_Subtraction"
  /\ \E k \in Viewers :
       /\ rv.isSourceViewer[k]
       /\ \E n \in Pixels(k) :
            /\ Plain(k, n)
            /\ rv.targetImageOutput[k][n] >= 0
            /\ rv.sourceImageOutput[k][n] >= 0
            /\ SubtractionOf(k, n, TRUE) # SubtractionOf(k, n, FALSE)
       /\ \E n \in Pixels(k) :
            Plain(k, n) /\ (rv.targetImageOutput[k][n] < 0 \/ rv.sourceImageOutput[k][n] < 0)

\* C6: A Checkerboard Update() with mix 1 leaves the colour buffers a
\* Target-only Update() of the same rasters leaves, and with mix 0 the buffers
\* a Source-only Update() leaves, whatever the buffers held before.
C6_CheckerboardExtremes ==
  (op = "Update" /\ rv.viewMode = "View_Checkerboard") =>
    \A prior \in {rv.drawable, NewDrawable(rv)} :
      /\ rv.viewMix = Quarter =>
           rv.drawable = Update([SetViewMode(Begin, "View_A") EXCEPT !.drawable = prior]).drawable
      /\ rv.viewMix = 0 =>
           rv.drawable = Update([SetViewMode(Begin, "View_B") EXCEPT !.drawable = prior]).drawable

\* a Checkerboard Update() with mix 1 of a pixel whose target and source
\* colours differ
C6_Witness ==
  /\ op = "Update"
  /\ rv.viewMode = "View_Checkerboard"
  /\ rv.viewMix = Quarter
  /\ \E k \in Viewers : \E n \in Pixels(k) :
       Plain(k, n) /\ AsColor(TargetColor(k, n)) # AsColor(SourceColor(k, n))

\* the colour of pixel n of viewer k behind a shutter: the first image left
\* of (vertical) or above (horizontal) the edge, the second one elsewhere
ShutterOf(k, n, vertical, exchanged) ==
  LET i == (n - 1) % Width(rv, k)
      j == (n - 1) \div Width(rv, k)
      first == IF vertical THEN i * Quarter < rv.viewMix * Width(rv, k)
                           ELSE j * Quarter < rv.viewMix * Height(rv, k)
  IN IF first # exchanged THEN AsColor(TargetColor(k, n)) ELSE AsColor(SourceColor(k, n))

ShutterModes == {"View_VShutter", "View_HShutter"}

\* C7 as stated: In V-shutter mode pixel (i, j) of every viewport shows the
\* target colour of that pixel iff i < mix * width and the source colour of that
\* pixel otherwise; in H-shutter mode the same with j < mix * height.
C7_ShutterTargetFirst ==
  (op = "Update" /\ rv.viewMode \in ShutterModes) =>
    \A k \in Viewers : \A n \in Pixels(k) :
      Plain(k, n) =>
        rv.drawable[k][n] = ShutterOf(k, n, rv.viewMode = "View_VShutter", FALSE)

\* C7 amended: In V-shutter mode pixel (i, j) of a target viewer shows the
\* target colour of that pixel iff i < mix * width and the source colour of that
\* pixel otherwise, in a source viewer the source colour iff i < mix * width
\* and the target colour otherwise; in H-shutter mode the same with
\* j < mix * height.
C7_ShutterPrimaryFirst ==
  (op = "Update" /\ rv.viewMode \in ShutterModes) =>
    \A k \in Viewers : \A n \in Pixels(k) :
      Plain(k, n) =>
        rv.drawable[k][n] = ShutterOf(k, n, rv.viewMode = "View_VShutter", rv.isSourceViewer[k])

\* a source viewer behind a vertical shutter with pixels on both sides of
\* the edge whose target and source colours differ
C7_Witness ==
  /\ op = "Update"
  /\ rv.viewMode = "View_VShutter"
  /\ \E k \in Viewers :
       /\ rv.isSourceViewer[k]
       /\ \E n, m \in Pixels(k) :
            /\ Plain(k, n) /\ Plain(k, m)
            /\ ((n - 1) % Width(rv, k)) * Quarter < rv.viewMix * Width(rv, k)
            /\ ((m - 1) % Width(rv, k)) * Quarter >= rv.viewMix * Width(rv, k)
            /\ AsColor(TargetColor(k, n)) # AsColor(SourceColor(k, n))
            /\ AsColor(TargetColor(k, m)) # AsColor(SourceColor(k, m))

\* int(a * x + (1 - a) * y) for a in quarters
Mixture(a, x, y) == (a * x + (Quarter - a) * y) \div Quarter
MixtureOf(a, c1, c2) ==
  [r |-> Mixture(a, c1.r, c2.r), g |-> Mixture(a, c1.g, c2.g), b |-> Mixture(a, c1.b, c2.b)]

\* the colour of pixel n of viewer k with one image laid over the other:
\* target over source weighs the target by its alpha, source over target
\* weighs the source by its alpha
OverOf(k, n, targetOver) ==
  IF targetOver
  THEN MixtureOf(TargetColor(k, n).a, TargetColor(k, n), SourceColor(k, n))
  ELSE MixtureOf(SourceColor(k, n).a, SourceColor(k, n), TargetColor(k, n))

OverModes == {"View_AoverB", "View_BoverA"}

\* C8 as stated: In every viewport A-over-B gives each channel
\* int(a_t * target + (1 - a_t) * source) and B-over-A gives
\* int((1 - a_s) * target + a_s * source), a_t and a_s being the alphas of the
\* target and the source lookup table at the pixel's samples.
C8_OverTargetIsA ==
  (op = "Update" /\ rv.viewMode \in OverModes) =>
    \A k \in Viewers : \A n \in Pixels(k) :
      Plain(k, n) => rv.drawable[k][n] = OverOf(k, n, rv.viewMode = "View_AoverB")

\* C8 amended: In a target viewer A-over-B gives each channel
\* int(a_t * target + (1 - a_t) * source) and B-over-A gives
\* int((1 - a_s) * target + a_s * source); in a source viewer A-over-B gives
\* int((1 - a_s) * target + a_s * source) and B-over-A gives
\* int(a_t * target + (1 - a_t) * source). An alpha of 1 gives exactly the
\* colour of the image on top, an alpha of 0 exactly that of the image below.
C8_OverPrimaryIsA ==
  (op = "Update" /\ rv.viewMode \in OverModes) =>
    \A k \in Viewers : \A n \in Pixels(k) :
      LET targetOver == (rv.viewMode = "View_AoverB") # rv.isSourceViewer[k]
          top   == IF targetOver THEN TargetColor(k, n) ELSE SourceColor(k, n)
          below == IF targetOver THEN SourceColor(k, n) ELSE TargetColor(k, n)
      IN Plain(k, n) =>
           /\ rv.drawable[k][n] = OverOf(k, n, targetOver)
           /\ top.a = Quarter => rv.drawable[k][n] = AsColor(top)
           /\ top.a = 0 => rv.drawable[k][n] = AsColor(below)

\* a source viewer in A-over-B mode with a pixel that the two readings of
\* the mode colour differently
C8_Witness ==
  /\ op = "Update"
  /\ rv.viewMode = "View_AoverB"
  /\ \E k \in Viewers : \E n \in Pixels(k) :
       /\ rv.isSourceViewer[k]
       /\ Plain(k, n)
       /\ SourceColor(k, n).a \in 1 .. Quarter - 1
       /\ OverOf(k, n, TRUE) # OverOf(k, n, FALSE)

\* C9: An Update() that follows an Update() with no call in between runs no
\* filter and leaves every colour buffer as the first one left it.
C9_UpdateIdempotent ==
  [][ (op = "Update" /\ op' = "Update")
      => /\ rv'.drawable = rv.drawable
         /\ \A p \in DOMAIN rv'.trace : rv'.trace[p].ev # "Run" ]_vars

\* a second Update() of a viewer that shows the labels and a contour, with a
\* pixel under both overlays
C9_Witness ==
  /\ op = "Update"
  /\ Positions("Run") = {}
  /\ rv.DisplaySegmentationLabels
  /\ rv.contourSize > 0
  /\ \E k \in Viewers : \E n \in Pixels(k) :
       /\ rv.segmentationImageOutput[k][n] >= 0
       /\ SegmentEntry(rv.segmentationImageOutput[k][n]).visible
       /\ rv.selectionImageOutput[k][n] > 0

\* s with sample n of the raster of role number i of viewer k set to v
Poke(s, i, k, n, v) ==
  CASE i = 1 -> [s EXCEPT !.targetImageOutput[k][n] = v]
    [] i = 2 -> [s EXCEPT !.sourceImageOutput[k][n] = v]
    [] i = 3 -> [s EXCEPT !.segmentationImageOutput[k][n] = v]
    [] i = 4 -> [s EXCEPT !.selectionImageOutput[k][n] = v]

\* the orders in which the viewers can be visited
Orders == {o \in [Viewers -> Viewers] : \A a, b \in Viewers : o[a] = o[b] => a = b}

\* C10: After Update(), setting any sample of any raster at another pixel or
\* in another viewport to any value and compositing again leaves the colour of
\* a pixel as it is, and so does compositing the viewports in any other order.
C10_PixelIndependence ==
  (op = "Update" /\ Positions("Run") # {}) =>
    /\ \A i \in 1 .. 4, k2 \in Viewers :
         \A n2 \in Pixels(k2), v \in Samples :
           LET u == Update(Poke(Begin, i, k2, n2, v))
           IN \A k \in Viewers : \A n \in Pixels(k) :
                (k # k2 \/ n # n2) => u.drawable[k][n] = rv.drawable[k][n]
    /\ \A order \in Orders : CompositeLoop(Begin, order).drawable = rv.drawable

\* an Update() of two or more viewports that show labels and a contour, in a
\* mode that reads both rasters
C10_Witness ==
  /\ op = "Update"
  /\ Positions("Run") # {}
  /\ rv.NoOfViewers > 1
  /\ rv.viewMode = "View_AoverB"
  /\ rv.DisplaySegmentationLabels
  /\ rv.contourSize > 0
  /\ \E k \in Viewers : \E n \in Pixels(k) :
       k > 1 /\ rv.segmentationImageOutput[k][n] > 0

\* the selection overlay leaves pixel n of viewer k alone
Unselected(k, n) == ~(rv.contourSize > 0 /\ rv.selectionImageOutput[k][n] > 0)

\* the colour buffers Update() leaves when the labels are not displayed
BaseBuffers == Update(SetDisplaySegmentationLabels(Begin, FALSE)).drawable

\* C11: After Update(), a pixel outside the selection whose segmentation
\* sample is a label >= 0 marked visible holds, with the labels displayed,
\* int(opacity * labelColour + (1 - opacity) * base) in each channel; with the
\* labels not displayed, or a negative sample, or a label that is not visible,
\* it holds the base colour.
C11_SegmentationOverlay ==
  op = "Update" =>
    LET base == BaseBuffers
    IN \A k \in Viewers : \A n \in Pixels(k) :
         LET label == rv.segmentationImageOutput[k][n]
             e     == SegmentEntry(label)
         IN Unselected(k, n) =>
              rv.drawable[k][n] =
                IF rv.DisplaySegmentationLabels /\ label >= 0 /\ e.visible
                THEN MixtureOf(e.trans, e.color, base[k][n])
                ELSE base[k][n]

\* labels displayed over a viewer with a half transparent label whose blend
\* differs from the base and from the label colour, a hidden label and a
\* negative sample
C11_Witness ==
  /\ op = "Update"
  /\ rv.DisplaySegmentationLabels
  /\ \E k \in Viewers :
       /\ \E n \in Pixels(k) :
            LET e == SegmentEntry(rv.segmentationImageOutput[k][n])
            IN /\ Unselected(k, n)
               /\ rv.segmentationImageOutput[k][n] > 0
               /\ e.visible
               /\ e.trans \in 1 .. Quarter - 1
               /\ rv.drawable[k][n] # BaseBuffers[k][n]
               /\ rv.drawable[k][n] # e.color
       /\ \E n \in Pixels(k) : rv.segmentationImageOutput[k][n] = 0
       /\ \E n \in Pixels(k) : rv.segmentationImageOutput[k][n] < 0

\* pixel n of viewer k is under the selection overlay
Selected(k, n) == rv.contourSize > 0 /\ rv.selectionImageOutput[k][n] > 0

\* the colour buffers Update() leaves once the contour is cleared: the view
\* mode and the labels, no selection
UnselectedBuffers == Update(ClearContour(Begin)).drawable

\* C12 as stated: After Update(), the colour of a pixel under the selection
\* overlay does not depend on the colour computed for it before: it is the same
\* in every view mode, with and without labels.
C12_HighlightOverrides ==
  op = "Update" =>
    \A mode \in ViewModes, labels \in BOOLEAN :
      LET other == Update(SetDisplaySegmentationLabels(SetViewMode(Begin, mode), labels))
      IN \A k \in Viewers : \A n \in Pixels(k) :
           Selected(k, n) => other.drawable[k][n] = rv.drawable[k][n]

\* C12 amended: After Update(), with a contour open, a pixel whose selection
\* sample is > 0 holds the colour computed for it before, blended half and half
\* with the highlight (255, 255, 0): red and green int(0.5 * c + 0.5 * 255),
\* blue int(0.5 * b); any other pixel keeps the colour computed before.
C12_HighlightTints ==
  op = "Update" =>
    LET prior == UnselectedBuffers
    IN \A k \in Viewers : \A n \in Pixels(k) :
         rv.drawable[k][n] =
           IF Selected(k, n)
           THEN [r |-> (prior[k][n].r + ChannelMax) \div 2,
                 g |-> (prior[k][n].g + ChannelMax) \div 2,
                 b |-> prior[k][n].b \div 2]
           ELSE prior[k][n]

\* a selected pixel whose colour before the overlay is not black, next to a
\* pixel that is not selected
C12_Witness ==
  /\ op = "Update"
  /\ \E k \in Viewers :
       /\ \E n \in Pixels(k) :
            /\ Selected(k, n)
            /\ UnselectedBuffers[k][n].b > 1
            /\ rv.drawable[k][n] # UnselectedBuffers[k][n]
       /\ \E n \in Pixels(k) : ~Selected(k, n)


(***************************************************************************)
(* Contour editing                                                          *)
(***************************************************************************)
ContourOps == {"AddContour", "FillArea", "RegionGrowContour"}

\* the object without the trace of the call
Untraced(s) == [s EXCEPT !.trace = <<>>]

\* the pointer the last contour operation was given, the raster it found
PointerOf(s) == s.trace[1].viewer
RasterBefore(s) == s.trace[2].viewer

\* the pointer of the last contour operation lies in the viewport of the
\* viewer that owns the contour
PointerInside(s) ==
  InViewport(s, s.contourViewer, PointerOf(s)[1], PointerOf(s)[2])

\* C13: while a contour is open, AddContour, FillArea and RegionGrowContour
\* called with a pointer outside the viewport of the viewer that owns the
\* contour return without effect: the points, the raster, the owning viewer
\* and the four update flags are what they were before the call
C13_OutsidePointerIgnored ==
  [][(/\ op' \in ContourOps
      /\ rv.contourSize > 0
      /\ ~InViewport(rv, rv.contourViewer, PointerOf(rv')[1], PointerOf(rv')[2]))
       => Untraced(rv') = Untraced(rv)]_vars

\* a contour is open, the flags are clear, and FillArea has been called with a
\* pointer outside the viewport of the contour
C13_Witness ==
  /\ op = "FillArea"
  /\ rv.contourSize > 0
  /\ ~PointerInside(rv)
  /\ rv.contourRaster # {}
  /\ DirtyFlags(rv) = Clean

\* C14: FillContour(label) allocates an empty segmentation with the geometry
\* of the target, all zero; it sets to label exactly the segmentation voxels
\* that correspond to the raster voxels of the contour, every other voxel
\* keeps its value; afterwards the contour is cleared and the segmentation
\* and selection flags are set
C14_FillContourPaintsRaster ==
  [][op' = "FillContour" =>
       LET fill == rv'.trace[1].viewer
           seg == rv'.segmentationImage
           painted == {WorldToVoxel(seg, GridToWorld(rv.contourGrid, n)) : n \in rv.contourRaster}
       IN /\ rv.segmentationImage = 0 => seg = rv.targetImage
          /\ rv.segmentationImage # 0 => seg = rv.segmentationImage
          /\ \A v \in VoxelsOf(seg) :
               SegmentationVoxel(rv', v) =
                 IF v \in painted THEN fill
                 ELSE IF rv.segmentationImage = 0 THEN 0
                 ELSE SegmentationVoxel(rv, v)
          /\ rv'.contourSize = 0
          /\ rv'.segmentationUpdate
          /\ rv'.selectionUpdate]_vars

Corner1 == WorldToVoxel(rv.targetImage, rv.roi1)
Corner2 == WorldToVoxel(rv.targetImage, rv.roi2)

\* C16: the corners of the region of interest never invert: on every axis the
\* voxel of corner 1 is at or below the voxel of corner 2
C16_CornersNeverInvert ==
  \A a \in 1 .. 3 : Corner1[a] <= Corner2[a]

\* C17: both corners of the region of interest lie inside the target volume
C17_CornersInsideTarget ==
  InsideVolume(rv.targetImage, Corner1) /\ InsideVolume(rv.targetImage, Corner2)


(***************************************************************************)
(* Orientation                                                              *)
(***************************************************************************)
\* the display axes and the sign a requested flip gives display axis i
Display == <<rv.xaxis, rv.yaxis, rv.zaxis>>
Flipped(i) == IF <<rv.FlipX, rv.FlipY, rv.FlipZ>>[i] THEN -1 ELSE 1

\* C18: the orientation table of Reset(). Neurological: an axis with code L2R
\* goes negated to display x, R2L unnegated; radiological: L2R unnegated, R2L
\* negated; in both P2A goes unnegated and A2P negated to display y, I2S
\* unnegated and S2I negated to display z, whichever physical axis has the
\* code; native: the physical axes are copied; a requested flip then negates
\* its display axis
C18_OrientationTable ==
  op = "Reset" =>
    LET axes == rv.targetOrientation.axes
        codes == rv.targetOrientation.codes
        lr == IF rv.DisplayMode = "Neurological" THEN -1 ELSE 1
    IN IF rv.DisplayMode = "Native"
       THEN \A i \in 1 .. 3 : Display[i] = Scale(Flipped(i), axes[i])
       ELSE \A p \in 1 .. 3 :
              /\ codes[p] = "L2R" => Display[1] = Scale(Flipped(1) * lr, axes[p])
              /\ codes[p] = "R2L" => Display[1] = Scale(Flipped(1) * (-lr), axes[p])
              /\ codes[p] = "P2A" => Display[2] = Scale(Flipped(2), axes[p])
              /\ codes[p] = "A2P" => Display[2] = Scale(-Flipped(2), axes[p])
              /\ codes[p] = "I2S" => Display[3] = Scale(Flipped(3), axes[p])
              /\ codes[p] = "S2I" => Display[3] = Scale(-Flipped(3), axes[p])

\* Reset() in the radiological convention of a target whose third axis runs
\* right to left and whose first axis runs from the head down, with display z
\* flipped
C18_Witness ==
  /\ op = "Reset"
  /\ rv.DisplayMode = "Radiological"
  /\ rv.targetOrientation.codes = <<"S2I", "P2A", "R2L">>
  /\ rv.FlipZ /\ ~rv.FlipX /\ ~rv.FlipY
  /\ rv.xaxis = <<1, 0, 0>>
  /\ rv.yaxis = <<0, 1, 0>>
  /\ rv.zaxis = <<0, 0, -1>>


(***************************************************************************)
(* Configuration file                                                       *)
(***************************************************************************)
\* C19: Read() of the file Write() has written leaves the configuration mode
\* that was written, for every mode of the enumeration
C19_ConfigModeRoundTrip ==
  op = "Read" => rv.configMode = rv.configFile.wrote.configMode

\* C20: Read() of the file Write() has written leaves the view mode that was
\* written, for every view mode, whatever the view mode was before Read()
C20_ViewModeRoundTrip ==
  op = "Read" => rv.viewMode = rv.configFile.wrote.viewMode

\* C21: Read() of the file Write() has written leaves every boolean display
\* flag at the value that was written, for every combination of the ten flags
C21_FlagsRoundTrip ==
  op = "Read" => rv.display = rv.configFile.wrote.display

\* the display range and the colour mode of a lookup table
TableSetting(lut) == << lut.minDisplay, lut.maxDisplay, lut.mode >>

Patterns ==
  {"configMode", "screenX", "screenY", "origin_x", "origin_y", "origin_z",
   "resolution", "targetInterpolationMode", "sourceInterpolationMode",
   "viewMode", "viewMix", "CursorMode"}
  \cup DisplayFlags
  \cup {n \o "_min" : n \in TableNames} \cup {n \o "_max" : n \in TableNames}
  \cup {n \o "_mode" : n \in TableNames}
Unrecognised(line) == line.eq /\ \A pattern \in Patterns : ~Contains(line, pattern)
LinesOf(s) == {s.configFile.lines[n] : n \in 1 .. Len(s.configFile.lines)}

\* C23: Read() of a file whose lines all have an unrecognised key leaves
\* every configuration field as it was, the two interpolation modes included
C23_UnknownKeyIsNoOp ==
  [][(op' = "Read" /\ LinesOf(rv') # {} /\ \A line \in LinesOf(rv') : Unrecognised(line))
       => ConfigurationOf(rv') = ConfigurationOf(rv)]_vars

\* a line of an interpolation mode with a token that is not one of the five
BadToken(line) ==
  /\ line.eq
  /\ Contains(line, "targetInterpolationMode") \/ Contains(line, "sourceInterpolationMode")
  /\ line.value \notin InterpolationTokens
Configured(s) == \E n \in 1 .. Len(s.trace) : s.trace[n].ev = "Configure"

\* C24: Read() of a file that holds a line without '=' or an interpolation
\* line with a token other than the five ends the process before the final
\* Configure
C24_FatalLines ==
  [][(op' = "Read" /\ \E line \in LinesOf(rv') : ~line.eq \/ BadToken(line))
       => ~rv'.running /\ ~Configured(rv')]_vars

\* a file whose first line is well formed and whose second line carries an
\* unknown interpolation token has ended the process
C24_Witness ==
  /\ op = "Read"
  /\ ~rv.running
  /\ ~Configured(rv)
  /\ rv.configFile.lines = << Line("sourceInterpolationMode", "mirtk::Interpolation_Sinc"),
                              Line("targetInterpolationMode", "mirtk::Interpolation_Cubic") >>
  /\ rv.sourceInterpolationMode = "Sinc"

\* the mode of the token of the last line of the file that holds the key
ModeOfToken(token) ==
  CASE token = "mirtk::Interpolation_NN" -> "NN"
    [] token = "mirtk::Interpolation_Linear" -> "Linear"
    [] token = "Interpolation_C1Spline" -> "CSpline"
    [] token = "mirtk::Interpolation_BSpline" -> "BSpline"
    [] OTHER -> "Sinc"
LinesWith(s, key) ==
  {n \in 1 .. Len(s.configFile.lines) : Contains(s.configFile.lines[n], key)}
LastMode(s, key) ==
  ModeOfToken(s.configFile.lines[CHOOSE n \in LinesWith(s, key) :
                                   \A m \in LinesWith(s, key) : m <= n].value)

\* C25: after a Read() that ends, the target (source) interpolation mode is
\* the mode of the last targetInterpolationMode (sourceInterpolationMode)
\* line of the file, and is the mode before Read() if the file has no such
\* line
C25_LastInterpolationLine ==
  [][(op' = "Read" /\ rv'.running) =>
       /\ rv'.targetInterpolationMode =
            IF LinesWith(rv', "targetInterpolationMode") # {}
            THEN LastMode(rv', "targetInterpolationMode") ELSE rv.targetInterpolationMode
       /\ rv'.sourceInterpolationMode =
            IF LinesWith(rv', "sourceInterpolationMode") # {}
            THEN LastMode(rv', "sourceInterpolationMode") ELSE rv.sourceInterpolationMode]_vars

(***************************************************************************)
(* Source filters and the displacement cache                                *)
(***************************************************************************)
\* C26: whenever the source transformation is not applied, no source filter
\* has the displacement cache attached and every source filter points to the
\* target transformation
C26_CacheDetachedWhenNotApplied ==
  ~rv.sourceTransformApply =>
    \A k \in Viewers :
      /\ ~rv.sourceTransformFilter[k].cache
      /\ rv.sourceTransformFilter[k].transformation = "target"

\* the file of the ReadTransformation that has just returned
FileRead(s) == s.trace[1].viewer

\* C27: after ReadTransformation the source transformation is not of the
\* rigid class; a rigid file has become an affine transformation with the
\* parameters of the file, any other file is taken as it is; and every
\* source filter points to the new transformation, or to the target
\* transformation when the source transformation is not applied, never to a
\* deleted object
C27_RigidBecomesAffine ==
  [][op' = "ReadTransformation" =>
       /\ rv'.sourceTransform.class # "Rigid"
       /\ rv'.sourceTransform =
            IF FileRead(rv').class = "Rigid"
            THEN [class |-> "Affine", rigid |-> FileRead(rv').rigid,
                  affine |-> FileRead(rv').affine]
            ELSE FileRead(rv')
       /\ \A k \in 1 .. rv'.NoOfViewers :
            rv'.sourceTransformFilter[k].transformation =
              IF rv'.sourceTransformApply THEN "source" ELSE "target"]_vars

\* a rigid file was read while the source transformation was not applied
C27_Witness ==
  /\ op = "ReadTransformation"
  /\ FileRead(rv).class = "Rigid"
  /\ rv.sourceTransform = [class |-> "Affine", rigid |-> 1, affine |-> 0]
  /\ ~rv.sourceTransformApply
  /\ \A k \in Viewers : rv.sourceTransformFilter[k].transformation = "target"

\* C30: whenever Update() starts with the displacement cache attached to a
\* source filter and not marked modified, the parameters of the source
\* transformation, the invert flag and the two frames are those the cache
\* was filled from, i.e. no operation changes them and leaves the cache
\* unmodified
C30_CacheFollowsTransformation ==
  [][(/\ op' = "Update"
      /\ \E k \in Viewers : rv.sourceTransformFilter[k].cache
      /\ rv.sourceTransformCache.state = "valid")
       => rv.sourceTransformCache.snapshot = CacheSnapshot(rv)]_vars

\* C28: ReadTarget and ReadSource of n files: if the geometry of a file
\* differs from that of the first file in anything but the time origin and
\* the time step, the viewer ends in a fatal error with the volume it had
\* neither deleted nor replaced; otherwise the volume read has n frames and
\* frame i holds the voxels of file i
FilesRead(s) == s.trace[1].viewer
SequenceRead(files, image, image1, volume, volume1, running1) ==
  IF GeometryMismatch(files)
  THEN ~running1 /\ image1 = image /\ volume1 = volume
  ELSE /\ running1
       /\ GetT(image1) = Len(files)
       /\ Len(volume1.frames) = Len(files)
       /\ \A i \in 1 .. Len(files) : files[i].voxels = << volume1.frames[i] >>
C28_SequenceOfFiles ==
  [][/\ op' = "ReadTargetFiles" =>
          SequenceRead(FilesRead(rv'), rv.targetImage, rv'.targetImage,
                       rv.targetVolume, rv'.targetVolume, rv'.running)
     /\ op' = "ReadSourceFiles" =>
          SequenceRead(FilesRead(rv'), rv.sourceImage, rv'.sourceImage,
                       rv.sourceVolume, rv'.sourceVolume, rv'.running)]_vars

\* C29: a pointer pixel (i, j) of the window, j counted from the top, is
\* converted to a normalized position in [0,1) x [0,1) counted from the
\* bottom, so that every pixel, and every pixel of the top row j = 0, lies in
\* the viewport whose columns cover it and that spans up to y2 = 1
C29_TopRowResolved ==
  \A p \in Pointers :
     /\ 0 <= rv.screenY - p[2] /\ rv.screenY - p[2] < rv.screenY
     /\ \A k \in 1 .. rv.NoOfViewers :
          (/\ p[2] = 0
           /\ 2 * p[1] >= rv.viewer[k].xmin * rv.screenX
           /\ 2 * p[1] <  rv.viewer[k].xmax * rv.screenX
           /\ rv.viewer[k].ymax = 2)
            => InViewport(rv, k, p[1], p[2])

\* C31: Read() gives the screen width the value of the screenX line and the
\* screen height the value of the screenY line: after Read() of a file that
\* Write() wrote, both screen dimensions are those of the viewer that wrote
C31_ScreenRoundTrip ==
  op = "Read" =>
    /\ rv.screenX = rv.configFile.wrote.screenX
    /\ rv.screenY = rv.configFile.wrote.screenY

\* C32: wherever Update() can run, the target, source, segmentation and
\* selection rasters of every viewer hold width x height samples of that
\* viewer and its colour buffer holds width x height colours
RasterSized(s, k) ==
  /\ Len(s.targetImageOutput[k]) = Width(s, k) * Height(s, k)
  /\ Len(s.sourceImageOutput[k]) = Width(s, k) * Height(s, k)
  /\ Len(s.segmentationImageOutput[k]) = Width(s, k) * Height(s, k)
  /\ Len(s.selectionImageOutput[k]) = Width(s, k) * Height(s, k)
  /\ Len(s.drawable[k]) = Width(s, k) * Height(s, k)
C32_RastersFitViewers ==
  /\ Len(rv.viewer) = rv.NoOfViewers
  /\ Len(rv.targetImageOutput) = rv.NoOfViewers
  /\ Len(rv.sourceImageOutput) = rv.NoOfViewers
  /\ Len(rv.segmentationImageOutput) = rv.NoOfViewers
  /\ Len(rv.selectionImageOutput) = rv.NoOfViewers
  /\ Len(rv.drawable) = rv.NoOfViewers
  /\ \A k \in 1 .. rv.NoOfViewers : RasterSized(rv, k)
\* Read() has made the window taller than any Resize of the specification
\* does, in a layout of three viewers, with a target and a source loaded
C32_Witness ==
  /\ op = "Read"
  /\ rv.screenY = 4
  /\ rv.NoOfViewers = 3
  /\ rv.targetImage # 0 /\ rv.sourceImage # 0
  /\ \A k \in 1 .. rv.NoOfViewers : Len(rv.drawable[k]) = rv.screenX

\* C33: after ReadTarget, of one file or of several, no contour is open, the
\* region of interest runs from voxel (0,0,0) to voxel (X-1,Y-1,Z-1) of the
\* new target, and the four dirty flags are set
C33_ReadTargetResets ==
  (op \in {"ReadTarget", "ReadTargetFiles"} /\ rv.running) =>
    /\ rv.contourSize = 0
    /\ rv.contourRaster = {}
    /\ Corner1 = <<0, 0, 0>>
    /\ Corner2 = [a \in 1 .. 3 |-> Dimensions(rv.targetImage)[a] - 1]
    /\ DirtyFlags(rv) = <<TRUE, TRUE, TRUE, TRUE>>
\* a target of two files was read while a contour was drawn and the flags
\* were clear
C33_Witness ==
  /\ op = "ReadTargetFiles"
  /\ rv.running
  /\ Len(FilesRead(rv)) = 2
  /\ rv.trace[1].dirty = Clean
  /\ rv.trace[2].viewer # {}

\* C34: AddContour, FillArea and RegionGrowContour index the array of viewers
\* with an index of one of the viewers only, also when the first point of a
\* contour lies outside every viewport and when the layout was changed, with
\* a contour open, to one without a viewer of the contour's plane
C34_ContourViewerInRange ==
  \A p \in Positions("Index") : rv.trace[p].viewer \in 1 .. rv.NoOfViewers

\* C35: SetOrigin(i, j) and MouseWheel(i, j, wheel) with the pointer inside
\* exactly one viewport set the reslice origin from the grid of that viewer
\* alone, and with the pointer outside every viewport leave the reslice
\* origin as it is
PointerAt(s) == s.trace[1].viewer
ViewersAt(s, p) == {k \in 1 .. s.NoOfViewers : InViewport(s, k, p[1], p[2])}
OriginSetFrom(s, k, p) == WorldToVoxel(s.targetImage, PointerToWorld(s, k, p[1], p[2]))
OriginMovedFrom(s, k, wheel) ==
  WorldToVoxel(s.targetImage,
               Plus(GridOrigin(ViewerGrid(s, k)),
                    Scale(2 * wheel, GridAxes(ViewerGrid(s, k))[3])))
C35_OriginFromOneViewer ==
  [][/\ op' = "SetOrigin" =>
          LET hit == ViewersAt(rv, PointerAt(rv'))
          IN /\ hit = {} => rv'.origin = rv.origin
             /\ \A k \in hit : Cardinality(hit) = 1 =>
                  rv'.origin = OriginSetFrom(rv, k, PointerAt(rv'))
     /\ op' = "MouseWheel" =>
          LET hit == ViewersAt(rv, PointerAt(rv'))
          IN /\ hit = {} => rv'.origin = rv.origin
             /\ \A k \in hit : Cardinality(hit) = 1 =>
                  \E wheel \in WheelSteps : rv'.origin = OriginMovedFrom(rv, k, wheel)]_vars

(***************************************************************************)
(* The keys x, X, y, Y, z, Z and the keys + and -                           *)
(***************************************************************************)
\* the key pressed in the last call of cb_keyboard, and the frame and the
\* origin it found
KeyPressed == op = "cb_keyboard" /\ Len(rv.trace) > 0 /\ rv.trace[1].ev = "Key"
PressedKey == rv.trace[1].role
FrameBefore == rv.trace[1].viewer.frame
OriginBefore == rv.trace[1].viewer.origin
KeyAxis(key) == CASE key \in {"x", "X"} -> 1 [] key \in {"y", "Y"} -> 2 [] OTHER -> 3
KeyStep(key) == IF key \in {"x", "y", "z", "-"} THEN -1 ELSE 1
Clamped(v, dim) == IF v < 0 THEN 0 ELSE IF v > dim - 1 THEN dim - 1 ELSE v

\* C36: a key of x, X, y, Y, z, Z moves the reslice origin by one voxel of the
\* target along its axis, down for the small letter and up for the capital,
\* and keeps it within 0 .. dim - 1 of that axis; the other two coordinates
\* of the origin stay as they were
C36_OriginKeysClamped ==
  (KeyPressed /\ PressedKey \in OriginKeys /\ InsideVolume(rv.targetImage, OriginBefore)) =>
    LET a == KeyAxis(PressedKey)
    IN rv.origin = [OriginBefore EXCEPT
                      ![a] = Clamped(@ + KeyStep(PressedKey), Dimensions(rv.targetImage)[a])]

\* C37: with T frames in the target and the frame f in 0 .. T - 1, the key +
\* sets the frame to (f + 1) mod T and the key - to (f - 1) mod T, the frame
\* stays in 0 .. T - 1, and the key - pressed after the key + gives f again
C37_FrameKeysWrap ==
  (KeyPressed /\ PressedKey \in FrameKeys /\ FrameBefore \in 0 .. GetT(rv.targetImage) - 1) =>
    /\ rv.targetFrame = (FrameBefore + KeyStep(PressedKey)) % GetT(rv.targetImage)
    /\ rv.targetFrame \in 0 .. GetT(rv.targetImage) - 1
    /\ PressedKey = "+" =>
         cb_keyboard([rv EXCEPT !.trace = <<>>], "-").targetFrame = FrameBefore
\* the key + is pressed at the last of two frames, the key - at the first
C37_Witness ==
  /\ KeyPressed /\ GetT(rv.targetImage) = 2
  /\ \/ PressedKey = "+" /\ FrameBefore = 1 /\ rv.targetFrame = 0
     \/ PressedKey = "-" /\ FrameBefore = 0 /\ rv.targetFrame = 1

(***************************************************************************)
(* Reset() called twice                                                     *)
(***************************************************************************)
\* what Reset() works out: the display axes and the reslice origin
ResetResult(s) == <<s.xaxis, s.yaxis, s.zaxis, s.origin>>

\* C38: after a call of Reset() a second call of Reset() leaves the display
\* axes and the reslice origin as the first call set them, in every display
\* mode, with every flip setting and for every triple of orientation codes
C38_ResetIdempotent ==
  op = "Reset" => ResetResult(Reset(Begin)) = ResetResult(rv)

(***************************************************************************)
(* The writes of FillContour                                                *)
(***************************************************************************)
\* the voxels FillContour computes for the raster of the contour that lie
\* inside segmentation seg
PaintedInside(s, seg) ==
  {v \in {WorldToVoxel(seg, GridToWorld(s.contourGrid, n)) : n \in s.contourRaster} :
     InsideVolume(seg, v)}

\* C39: FillContour writes only where a raster voxel of the contour falls
\* inside the segmentation: a voxel of the segmentation to which no raster
\* voxel corresponds keeps its value, and a raster voxel outside the grid of
\* the segmentation causes no write (the call completes)
C39_FillContourInsideBounds ==
  [][op' = "FillContour" =>
       LET seg == rv'.segmentationImage
       IN /\ rv'.running
          /\ \A v \in VoxelsOf(seg) \ PaintedInside(rv, seg) :
               SegmentationVoxel(rv', v) =
                 IF rv.segmentationImage = 0 THEN 0 ELSE SegmentationVoxel(rv, v)]_vars

(***************************************************************************)
(* The viewers that show the source first                                   *)
(***************************************************************************)
\* the viewers before viewer i that show the same plane
EarlierOfMode(s, i) == {h \in 1 .. i - 1 : s.viewer[h].mode = s.viewer[i].mode}

\* C40: after Configure(config) viewer i is source-primary exactly if the
\* number of viewers before it in the list with the same plane is odd
C40_SourcePrimaryParity ==
  op = "Configure" =>
    \A i \in 1 .. rv.NoOfViewers :
      rv.isSourceViewer[i] <=> Cardinality(EarlierOfMode(rv, i)) % 2 = 1
\* a layout with three viewers of one plane: the second is source-primary,
\* the third is not
C40_Witness ==
  /\ op = "Configure"
  /\ \E i \in 1 .. rv.NoOfViewers :
       Cardinality(EarlierOfMode(rv, i)) = 2 /\ ~rv.isSourceViewer[i]
  /\ \E i \in 1 .. rv.NoOfViewers :
       Cardinality(EarlierOfMode(rv, i)) = 1 /\ rv.isSourceViewer[i]

====
